---- MODULE Spec2Model ----
(***************************************************************************)
(* Coupled-dipole electrodynamics of misloc_package (calc/coupled_dipoles). *)
(*                                                                         *)
(* Numbers.  numpy's complex floating point values are modelled exactly:   *)
(* a number is a record [re, im, den] standing for (re + i*im)/den with    *)
(* den > 0 and gcd(re, im, den) = 1.  den = 0 is the one non-finite value  *)
(* (numpy's nan and inf: the result of a division by zero and of every     *)
(* operation on a non-finite operand).  Units are chosen with hbar = c = 1 *)
(* so that a wavenumber is k = drive_hbar_w * n_b.                         *)
(*                                                                         *)
(* Angles.  An angle is the point [c, s, h] of the unit circle it names,   *)
(* cos = c/h and sin = s/h with c*c + s*s = h*h, so that rotation matrices *)
(* are exact.  The angle arctan(4/3) is [3, 4, 5].                         *)
(***************************************************************************)
EXTENDS Integers, Sequences, FiniteSets, TLC

(***************************************************************************)
(* Bounds of the model.                                                    *)
(***************************************************************************)
\* polarizability components are drawn from (1..MaxAlpha) + i*(0..1)
MaxAlpha == 2
\* drive energies (and so wavenumbers) are drawn from 0..MaxK
MaxK == 1
\* a batch of separations handed to G holds 1..MaxSeps vectors, and an
\* array of drive energies 1..MaxSeps entries
MaxSeps == 3

(***************************************************************************)
(* Exact complex arithmetic (numpy scalar arithmetic).                     *)
(***************************************************************************)
AbsInt(n) == IF n < 0 THEN -n ELSE n

RECURSIVE GCD(_, _)
GCD(a, b) == IF b = 0 THEN a ELSE GCD(b, a % b)

NonFinite == [re |-> 0, im |-> 0, den |-> 0]

IsFinite(x) == x.den # 0

\* (re + i*im)/den with the common factor g > 0 taken out and den made positive
Reduced(re, im, den, g) ==
    IF den < 0
    THEN [re |-> re \div (-g), im |-> im \div (-g), den |-> den \div (-g)]
    ELSE [re |-> re \div g, im |-> im \div g, den |-> den \div g]

\* the canonical record of (re + i*im)/den, den # 0
Norm(re, im, den) ==
    Reduced(re, im, den, GCD(GCD(AbsInt(re), AbsInt(im)), AbsInt(den)))

Cx(re, im) == [re |-> re, im |-> im, den |-> 1]
Re(n) == Cx(n, 0)
Zero == Cx(0, 0)
One == Cx(1, 0)
ImagUnit == Cx(0, 1)

IsZero(x) == IsFinite(x) /\ x.re = 0 /\ x.im = 0

\* the sum over the least common denominator; g is gcd(x.den, y.den)
CAddOver(x, y, g) ==
    Norm(x.re * (y.den \div g) + y.re * (x.den \div g),
         x.im * (y.den \div g) + y.im * (x.den \div g),
         x.den * (y.den \div g))

CAdd(x, y) ==
    IF x.den = 0 \/ y.den = 0 THEN NonFinite
    ELSE IF x.re = 0 /\ x.im = 0 THEN y
    ELSE IF y.re = 0 /\ y.im = 0 THEN x
    ELSE IF x.den = 1 /\ y.den = 1
    THEN [re |-> x.re + y.re, im |-> x.im + y.im, den |-> 1]
    ELSE CAddOver(x, y, GCD(x.den, y.den))

CNeg(x) == [re |-> -x.re, im |-> -x.im, den |-> x.den]

CSub(x, y) == CAdd(x, CNeg(y))

\* the product with the factor gx common to the numerator of x and the
\* denominator of y, and gy likewise, cancelled before multiplying
CMulCancelled(x, y, gx, gy) ==
    Norm((x.re \div gx) * (y.re \div gy) - (x.im \div gx) * (y.im \div gy),
         (x.re \div gx) * (y.im \div gy) + (x.im \div gx) * (y.re \div gy),
         (x.den \div gy) * (y.den \div gx))

CMul(x, y) ==
    IF x.den = 0 \/ y.den = 0 THEN NonFinite
    ELSE IF (x.re = 0 /\ x.im = 0) \/ (y.re = 0 /\ y.im = 0) THEN Zero
    ELSE IF x.den = 1 /\ y.den = 1
    THEN [re |-> x.re * y.re - x.im * y.im,
          im |-> x.re * y.im + x.im * y.re, den |-> 1]
    ELSE CMulCancelled(x, y, GCD(GCD(AbsInt(x.re), AbsInt(x.im)), y.den),
                       GCD(GCD(AbsInt(y.re), AbsInt(y.im)), x.den))

CConj(x) == [re |-> x.re, im |-> -x.im, den |-> x.den]

\* conj(x)/|x|**2 with g = gcd(x.re, x.im) and h = gcd(x.den, g) cancelled
CRecipCancelled(x, g, h) ==
    Norm((x.den \div h) * (x.re \div g), -((x.den \div h) * (x.im \div g)),
         (g \div h) * ((x.re \div g) * (x.re \div g)
                       + (x.im \div g) * (x.im \div g)))

\* 1/x; numpy gives inf (or nan) for a zero divisor
CRecip(x) ==
    IF x.den = 0 \/ (x.re = 0 /\ x.im = 0) THEN NonFinite
    ELSE IF x.im = 0 THEN Norm(x.den, 0, x.re)
    ELSE CRecipCancelled(x, GCD(AbsInt(x.re), AbsInt(x.im)),
                         GCD(x.den, GCD(AbsInt(x.re), AbsInt(x.im))))

CDiv(x, y) == CMul(x, CRecip(y))

\* np.imag, np.abs(.)**2 as numbers with a zero imaginary part
CImag(x) == IF x.den = 0 THEN NonFinite ELSE Norm(x.im, 0, x.den)
CAbs2(x) == CMul(x, CConj(x))

CPow(x, n) == IF n = 0 THEN One
              ELSE IF n = 1 THEN x
              ELSE IF n = 2 THEN CMul(x, x)
              ELSE CMul(x, CMul(x, x))

(***************************************************************************)
(* 3-vectors and 3x3 tensors (numpy arrays of shape (3,) and (3,3)).       *)
(***************************************************************************)
Idx == 1..3

ZeroVec == <<Zero, Zero, Zero>>
Diag(a, b, c) == << <<a, Zero, Zero>>, <<Zero, b, Zero>>, <<Zero, Zero, c>> >>
Identity3 == Diag(One, One, One)
ZeroMat == Diag(Zero, Zero, Zero)

Sum3(a, b, c) == CAdd(CAdd(a, b), c)

\* arrays are built as tuples, entry by entry
Tuple3(f) == <<f[1], f[2], f[3]>>
Tuple33(f) == << <<f[1][1], f[1][2], f[1][3]>>,
                <<f[2][1], f[2][2], f[2][3]>>,
                <<f[3][1], f[3][2], f[3][3]>> >>
\* the first N entries, N <= 4
TupleN(f, N) == IF N = 1 THEN <<f[1]>>
                ELSE IF N = 2 THEN <<f[1], f[2]>>
                ELSE IF N = 3 THEN <<f[1], f[2], f[3]>>
                ELSE <<f[1], f[2], f[3], f[4]>>
Vec3(F(_)) == Tuple3([i \in Idx |-> F(i)])
Mat3(F(_, _)) == Tuple33([i \in Idx |-> [j \in Idx |-> F(i, j)]])
\* a stack of N entries, N <= 4
Stack(F(_), N) == IF N = 0 THEN <<>> ELSE TupleN([n \in 1..N |-> F(n)], N)

\* A @ B
MatMul(A, B) ==
    Mat3(LAMBDA i, j : Sum3(CMul(A[i][1], B[1][j]), CMul(A[i][2], B[2][j]),
                            CMul(A[i][3], B[3][j])))
\* np.einsum('...ij,...j->...i', A, v)
MatVec(A, v) ==
    Vec3(LAMBDA i : Sum3(CMul(A[i][1], v[1]), CMul(A[i][2], v[2]),
                         CMul(A[i][3], v[3])))
MatAdd(A, B) == Mat3(LAMBDA i, j : CAdd(A[i][j], B[i][j]))
MatSub(A, B) == Mat3(LAMBDA i, j : CSub(A[i][j], B[i][j]))
VecAdd(u, v) == Vec3(LAMBDA i : CAdd(u[i], v[i]))
VecScale(s, v) == Vec3(LAMBDA i : CMul(s, v[i]))

MatFinite(A) == \A i \in Idx : \A j \in Idx : IsFinite(A[i][j])
NonFiniteMat == Mat3(LAMBDA i, j : NonFinite)

Det3(A) ==
    CAdd(CSub(CMul(A[1][1], CSub(CMul(A[2][2], A[3][3]), CMul(A[2][3], A[3][2]))),
              CMul(A[1][2], CSub(CMul(A[2][1], A[3][3]), CMul(A[2][3], A[3][1])))),
         CMul(A[1][3], CSub(CMul(A[2][1], A[3][2]), CMul(A[2][2], A[3][1]))))

Nxt(i) == (i % 3) + 1

\* cofactor of entry (i, j), by the cyclic formula
Cof(A, i, j) ==
    CSub(CMul(A[Nxt(i)][Nxt(j)], A[Nxt(Nxt(i))][Nxt(Nxt(j))]),
         CMul(A[Nxt(i)][Nxt(Nxt(j))], A[Nxt(Nxt(i))][Nxt(j)]))

\* the adjugate of A times r
Adjugate(A, r) == Mat3(LAMBDA i, j : CMul(Cof(A, j, i), r))

\* np.linalg.inv: the adjugate over the determinant.  (Whether the call
\* raises LinAlgError on a singular matrix is inv_raises, below.)
LinAlgError == "LinAlgError"

inv(A) ==
    IF ~MatFinite(A) THEN NonFiniteMat ELSE Adjugate(A, CRecip(Det3(A)))

(***************************************************************************)
(* Angles and rotation_by.                                                 *)
(***************************************************************************)
Angle(c, s, h) == [c |-> c, s |-> s, h |-> h]
\* Python's None where an angle is optional
None == Angle(0, 0, 0)
NegAngle(a) == [c |-> a.c, s |-> -a.s, h |-> a.h]
cos(a) == Norm(a.c, 0, a.h)
sin(a) == Norm(a.s, 0, a.h)

\* (mutant) the y rotation with the sign of R[2,0] lost
rotation_matrix_y_sign(cosines, sines, rot_axis) ==
    IF rot_axis = "x"
    THEN << <<One, Zero, Zero>>,
            <<Zero, cosines, CNeg(sines)>>,
            <<Zero, sines, cosines>> >>
    ELSE IF rot_axis = "y"
    THEN << <<cosines, Zero, sines>>,
            <<Zero, One, Zero>>,
            <<sines, Zero, cosines>> >>
    ELSE IF rot_axis = "z"
    THEN << <<cosines, CNeg(sines), Zero>>,
            <<sines, cosines, Zero>>,
            <<Zero, Zero, One>> >>
    ELSE ZeroMat

\* the array R that rotation_by fills from the cosines and sines
rotation_matrix(cosines, sines, rot_axis) ==
    IF rot_axis = "x"
    THEN << <<One, Zero, Zero>>,
            <<Zero, cosines, CNeg(sines)>>,
            <<Zero, sines, cosines>> >>
    ELSE IF rot_axis = "y"
    THEN << <<cosines, Zero, sines>>,
            <<Zero, One, Zero>>,
            <<CNeg(sines), Zero, cosines>> >>
    ELSE IF rot_axis = "z"
    THEN << <<cosines, CNeg(sines), Zero>>,
            <<sines, cosines, Zero>>,
            <<Zero, Zero, One>> >>
    ELSE ZeroMat

\* rotation_by(by_angle, rot_axis) for a scalar angle
rotation_by_axis(by_angle, rot_axis) ==
    rotation_matrix(cos(by_angle), sin(by_angle), rot_axis)

\* rotation_by(by_angle): rot_axis defaults to 'z'
rotation_by(by_angle) == rotation_by_axis(by_angle, "z")

\* rotation_by(-phi) @ alpha @ rotation_by(phi)
rotate_tensor(phi, alpha) ==
    MatMul(MatMul(rotation_by(NegAngle(phi)), alpha), rotation_by(phi))

\* (mutant) the drive field built from the y unit vector
drive_field_along_y(E_d_angle, drive_amp) ==
    VecScale(drive_amp, MatVec(rotation_by(E_d_angle), <<Zero, One, Zero>>))

\* rotation_by(E_d_angle) @ np.array([1,0,0])*drive_amp
drive_field(E_d_angle, drive_amp) ==
    VecScale(drive_amp, MatVec(rotation_by(E_d_angle), <<One, Zero, Zero>>))

(***************************************************************************)
(* The coupling tensor G.  d_col is a sequence of N separation vectors     *)
(* with integer components (shape (N,3)); drive_hbar_w is a record         *)
(* [array, data]: a scalar (array = FALSE, one datum) or a one-dimensional *)
(* array.  expi is the value of exp(1j) that np.exp is taken to return, a  *)
(* number of modulus one; exp(1j*n) is its n-th power.                     *)
(***************************************************************************)
ValueError == "ValueError"
\* the outcome of a call that raises
Raised(exc) == [status |-> exc]

Scalar(x) == [array |-> FALSE, data |-> <<x>>]
Array(xs) == [array |-> TRUE, data |-> xs]

\* integer square root of a perfect square
Sqrt(n) == CHOOSE r \in 0..n : r * r = n

\* vec_mag: np.linalg.norm(row_vecs, axis=-1)[:, None], shape (N,1)
vec_mag(row_vecs) ==
    Stack(LAMBDA n :
              Sqrt(row_vecs[n][1] * row_vecs[n][1]
                   + row_vecs[n][2] * row_vecs[n][2]
                   + row_vecs[n][3] * row_vecs[n][3]),
          Len(row_vecs))

IndexError == "IndexError"

\* vec_mag of an array of any number of dimensions, [shape, vecs] with the
\* vectors of the last axis in row-major order: the norm over the last
\* axis has the shape without its last entry, and [:, None] puts a new
\* axis after the FIRST axis of that; the norm of one vector is a scalar,
\* which cannot be indexed
vec_mag_nd(row_vecs) ==
    IF Len(row_vecs.shape) = 1 THEN Raised(IndexError)
    ELSE [status |-> "ok",
          shape |-> <<row_vecs.shape[1], 1>>
                    \o SubSeq(row_vecs.shape, 2, Len(row_vecs.shape) - 1),
          data |-> vec_mag(row_vecs.vecs)]

\* np.exp(1j*n) for an integer n >= 0, from u = np.exp(1j)
RECURSIVE UnitPow(_, _)
UnitPow(u, n) == IF n = 0 THEN One ELSE CMul(u, UnitPow(u, n - 1))


\* numpy broadcasting of shapes of at most three axes
Pad3(s) == IF Len(s) = 0 THEN <<1, 1, 1>>
           ELSE IF Len(s) = 1 THEN <<1, 1, s[1]>>
           ELSE IF Len(s) = 2 THEN <<1, s[1], s[2]>>
           ELSE s
Max(a, b) == IF a > b THEN a ELSE b
Compatible(s, t) == \A x \in 1..3 : s[x] = t[x] \/ s[x] = 1 \/ t[x] = 1
Broadcast(s, t) == <<Max(s[1], t[1]), Max(s[2], t[2]), Max(s[3], t[3])>>
\* the position along its one long axis of the operand element used at (a,i,j)
Pick(s, a, i, j) == IF s[1] > 1 THEN a
                    ELSE IF s[2] > 1 THEN i
                    ELSE IF s[3] > 1 THEN j
                    ELSE 1

\* n_hat = d_col/d, one component
n_hat(d_vec, d, x) == CDiv(Re(d_vec[x]), Re(d))
\* dyad = np.einsum('...i,...j->...ij', n_hat, n_hat), one element
dyad(d_vec, d, i, j) == CMul(n_hat(d_vec, d, i), n_hat(d_vec, d, j))
\* np.identity(3), one element
delta(i, j) == IF i = j THEN One ELSE Zero
\* 1/d**3 - 1j*k/d**2
near_field(d, k) ==
    CSub(CDiv(One, Re(d * d * d)), CDiv(CMul(ImagUnit, Re(k)), Re(d * d)))
\* k**2/d
far_field(d, k) == CDiv(Re(k * k), Re(d))
\* complex_phase_factor * ((3*dyad - I)*near - (dyad - I)*far), one element
g_dip_dip_element(dyad_ij, delta_ij, near, far, complex_phase_factor) ==
    CMul(complex_phase_factor,
         CSub(CMul(CSub(CMul(Re(3), dyad_ij), delta_ij), near),
              CMul(CSub(dyad_ij, delta_ij), far)))

\* one element of g_dip_dip from the separation vector, its magnitude d and
\* the wavenumber k that broadcasting pairs at that element
G_element(d_vec, d, k, i, j, expi) ==
    g_dip_dip_element(dyad(d_vec, d, i, j), delta(i, j), near_field(d, k),
                      far_field(d, k), UnitPow(expi, k * d))

\* k = w * n_b / c, one entry per drive energy
wavenumbers(drive_hbar_w, n_b) ==
    Stack(LAMBDA m : drive_hbar_w.data[m] * n_b, Len(drive_hbar_w.data))
\* the shapes of d and of k where the arithmetic combines them with the
\* dyad, whose shape is (N,3,3)
d_shape(d_col) == IF Len(d_col) # 1 THEN <<Len(d_col), 1, 1>> ELSE <<1, 1, 1>>
k_shape(drive_hbar_w, d_col) ==
    IF Len(d_col) = 1 /\ drive_hbar_w.array /\ Len(drive_hbar_w.data) > 1
    THEN <<Len(drive_hbar_w.data), 1, 1>>
    ELSE IF drive_hbar_w.array THEN Pad3(<<Len(drive_hbar_w.data)>>)
    ELSE Pad3(<<>>)

\* the array the arithmetic gives, of the broadcast shape
g_dip_dip(d_col, d, k, ds, ks, shape, expi) ==
    Stack(LAMBDA a : Mat3(LAMBDA i, j :
              G_element(d_col[Pick(ds, a, i, j)], d[Pick(ds, a, i, j)],
                        k[Pick(ks, a, i, j)], i, j, expi)),
          shape[1])

G_broadcast(d_col, d, k, ds, ks, dys, expi) ==
    IF ~Compatible(ks, ds) \/ ~Compatible(dys, Broadcast(ks, ds))
    THEN Raised(ValueError)
    ELSE [status |-> "ok",
          shape |-> Broadcast(dys, Broadcast(ks, ds)),
          g_dip_dip |-> g_dip_dip(d_col, d, k, ds, ks,
                                  Broadcast(dys, Broadcast(ks, ds)), expi)]

G(drive_hbar_w, d_col, n_b, expi) ==
    G_broadcast(d_col, vec_mag(d_col), wavenumbers(drive_hbar_w, n_b),
                d_shape(d_col), k_shape(drive_hbar_w, d_col),
                <<Len(d_col), 3, 3>>, expi)

\* the coupling tensors a solver uses: G, or zero tensors when the Green
\* tensor is forced to zero (the uncoupled limit)
G_or_zero(G_forced_zero, drive_hbar_w, d_col, n_b, expi) ==
    IF G_forced_zero THEN Stack(LAMBDA a : ZeroMat, Len(d_col))
    ELSE G(Scalar(drive_hbar_w), d_col, n_b, expi).g_dip_dip

(***************************************************************************)
(* Polarizabilities in the diagonal frame.  Real quantities are numbers    *)
(* with a zero imaginary part; an isolate_mode is a string, "None" for the *)
(* default.  A drive frequency w is a record [array, data] as for G.       *)
(***************************************************************************)
UnboundLocalError == "UnboundLocalError"
ModeNone == "None"

Frac(n, d) == Norm(n, 0, d)

\* np.sqrt of a rational whose numerator and denominator are squares
SqrtFrac(x) == Frac(Sqrt(x.re), Sqrt(x.den))

\* np.arctanh and np.arcsin at the eccentricities 3/5 and 4/5, to two digits
arctanh(e) == IF e = Frac(3, 5) THEN Frac(7, 10) ELSE Frac(11, 10)
arcsin(e) == IF e = Frac(3, 5) THEN Frac(13, 20) ELSE Frac(93, 100)

\* x > y for real x, y
Greater(x, y) == x.re * y.den > y.re * x.den

\* np.sqrt(np.abs(a_x**2. - a_yz**2.)/max([a_x, a_yz])**2.)
ecc(a_x, a_yz) ==
    SqrtFrac(CDiv(Frac(AbsInt(CSub(CPow(a_x, 2), CPow(a_yz, 2)).re),
                       CSub(CPow(a_x, 2), CPow(a_yz, 2)).den),
                  CPow(IF Greater(a_x, a_yz) THEN a_x ELSE a_yz, 2)))

\* alpha/(1 - (k**2./l_E)*D*alpha - 1j*((2*k**3.)/3)*alpha)
retarded(alphaR, k, l_E, D) ==
    CDiv(alphaR,
         CSub(CSub(One, CMul(CMul(CDiv(CPow(k, 2), l_E), D), alphaR)),
              CMul(CMul(ImagUnit, CDiv(CMul(Re(2), CPow(k, 3)), Re(3))),
                   alphaR)))

\* The nested functions of the spheroid, with the variables they close over
\* as arguments: prolate is a_x > a_yz and e is the eccentricity.
\* L_i(1)
L_x(prolate, e) ==
    IF prolate
    THEN CMul(CDiv(CSub(One, CPow(e, 2)), CPow(e, 3)),
              CAdd(CNeg(e), arctanh(e)))
    ELSE CMul(CDiv(One, CPow(e, 2)),
              CSub(One, CMul(CDiv(SqrtFrac(CSub(One, CPow(e, 2))), e),
                             arcsin(e))))

L_i(i, prolate, e) ==
    IF i = 1 THEN L_x(prolate, e)
    ELSE CDiv(CSub(One, L_x(prolate, e)), Re(2))

\* alphaR_ii(i) with L = L_i(i)
alphaR_ii(L, eps, eps_b, a_x, a_yz) ==
    CMul(CDiv(CMul(a_x, CPow(a_yz, 2)), Re(3)),
         CDiv(CSub(eps, eps_b), CAdd(eps_b, CMul(L, CSub(eps, eps_b)))))

D_x(prolate, e) ==
    IF prolate
    THEN CMul(Frac(3, 4),
              CAdd(CMul(CDiv(CAdd(One, CPow(e, 2)), CSub(One, CPow(e, 2))),
                        L_i(1, prolate, e)),
                   One))
    ELSE CMul(Frac(3, 4),
              CAdd(CMul(CSub(One, CMul(Re(2), CPow(e, 2))), L_i(1, prolate, e)),
                   One))

D_yz(prolate, e, a_x, a_yz) ==
    IF prolate
    THEN CMul(CDiv(a_yz, CMul(Re(2), a_x)),
              CSub(CMul(CDiv(Re(3), e), arctanh(e)), D_x(prolate, e)))
    ELSE CMul(CDiv(a_yz, CMul(Re(2), a_x)),
              CSub(CMul(CDiv(CMul(Re(3), SqrtFrac(CSub(One, CPow(e, 2)))), e),
                        arcsin(e)),
                   D_x(prolate, e)))

alphaMW_ii(i, eps, eps_b, a_x, a_yz, k, prolate, e) ==
    IF i = 1
    THEN retarded(alphaR_ii(L_i(i, prolate, e), eps, eps_b, a_x, a_yz), k, a_x,
                  D_x(prolate, e))
    ELSE retarded(alphaR_ii(L_i(i, prolate, e), eps, eps_b, a_x, a_yz), k, a_yz,
                  D_yz(prolate, e, a_x, a_yz))

\* the branch on a_x against a_yz and on isolate_mode, from the x-axis
\* and yz-axis polarizabilities alphaMW_ii(1) and alphaMW_ii(2)
spheroid_alpha_ij(alpha_x, alpha_yz, prolate, isolate_mode) ==
    IF isolate_mode = ModeNone
    THEN [status |-> "ok",
          alpha_ij |-> IF prolate
                       THEN Diag(alpha_x, alpha_yz, alpha_yz)
                       ELSE Diag(alpha_yz, alpha_yz, alpha_x)]
    ELSE IF isolate_mode = "long"
    THEN [status |-> "ok",
          alpha_ij |-> IF prolate THEN Diag(alpha_x, Zero, Zero)
                       ELSE Diag(alpha_yz, alpha_yz, Zero)]
    ELSE IF isolate_mode = "short" \/ isolate_mode = "trans"
    THEN [status |-> "ok",
          alpha_ij |-> IF prolate THEN Diag(Zero, alpha_yz, alpha_yz)
                       ELSE Diag(Zero, Zero, alpha_x)]
    ELSE Raised(UnboundLocalError)

spheroid_of(eps, eps_b, a_x, a_yz, k, prolate, e, isolate_mode) ==
    spheroid_alpha_ij(alphaMW_ii(1, eps, eps_b, a_x, a_yz, k, prolate, e),
                      alphaMW_ii(2, eps, eps_b, a_x, a_yz, k, prolate, e),
                      prolate, isolate_mode)

sparse_ret_prolate_spheroid_polarizability(eps, eps_b, a_x, a_yz, w, isolate_mode) ==
    IF a_x = a_yz THEN Raised(UnboundLocalError)
    ELSE spheroid_of(eps, eps_b, a_x, a_yz, CMul(Re(w), SqrtFrac(eps_b)),
                     Greater(a_x, a_yz), ecc(a_x, a_yz), isolate_mode)

\* alpha * M for the 3x3 array M whose one non-zero entry is a 1. at (i, i)
Masked(alpha, i) ==
    Mat3(LAMBDA r, c : CMul(alpha, IF r = i /\ c = i THEN One ELSE Zero))

\* the datum of a scalar or array that broadcasting pairs with sample n
Datum(x, n) == IF Len(x.data) = 1 THEN x.data[1] ELSE x.data[n]

\* the sizes of the arguments that are arrays of more than one entry, and
\* the number of tensors they broadcast to
array_sizes(alpha_11, alpha_22, alpha_33) ==
    {Len(x.data) : x \in {alpha_11, alpha_22, alpha_33}} \ {1}
batch_size(sizes) == IF sizes = {} THEN 1 ELSE CHOOSE n \in sizes : TRUE

\* (mutant) 'short' keeps the yy component only
distribute_short_keeps_yy(alpha_11, alpha_22, alpha_33, isolate_mode) ==
    [status |-> "ok",
     shape |-> IF batch_size(array_sizes(alpha_11, alpha_22, alpha_33)) > 1
               THEN <<batch_size(array_sizes(alpha_11, alpha_22, alpha_33)), 3, 3>>
               ELSE <<3, 3>>,
     alpha_ij |->
         Stack(LAMBDA n :
             IF isolate_mode = ModeNone
             THEN MatAdd(MatAdd(Masked(Datum(alpha_11, n), 1),
                                Masked(Datum(alpha_22, n), 2)),
                         Masked(Datum(alpha_33, n), 3))
             ELSE IF isolate_mode = "long"
             THEN Masked(Datum(alpha_11, n), 1)
             ELSE Masked(Datum(alpha_22, n), 2),
             batch_size(array_sizes(alpha_11, alpha_22, alpha_33)))]

distribute_batch(alpha_11, alpha_22, alpha_33, isolate_mode, sizes, N) ==
    IF isolate_mode \notin {ModeNone, "long", "short", "trans"}
    THEN Raised(UnboundLocalError)
    ELSE IF Cardinality(sizes) > 1 THEN Raised(ValueError)
    ELSE [status |-> "ok",
          shape |-> IF N > 1 THEN <<N, 3, 3>> ELSE <<3, 3>>,
          alpha_ij |->
              Stack(LAMBDA n :
                  IF isolate_mode = ModeNone
                  THEN MatAdd(MatAdd(Masked(Datum(alpha_11, n), 1),
                                     Masked(Datum(alpha_22, n), 2)),
                              Masked(Datum(alpha_33, n), 3))
                  ELSE IF isolate_mode = "long"
                  THEN Masked(Datum(alpha_11, n), 1)
                  ELSE MatAdd(Masked(Datum(alpha_22, n), 2),
                              Masked(Datum(alpha_33, n), 3)), N)]

distribute_sphere_alpha_components_into_tensor(alpha_11, alpha_22, alpha_33, isolate_mode) ==
    distribute_batch(alpha_11, alpha_22, alpha_33, isolate_mode,
                     array_sizes(alpha_11, alpha_22, alpha_33),
                     batch_size(array_sizes(alpha_11, alpha_22, alpha_33)))

\* alpha_0_xx of the fluorophore at one frequency (units with e = c = 1):
\* the damped oscillator, gamma_r = gamma_nr + (2/(3 mass)) w**2, plus the
\* static term
alpha_0_xx(mass, w_res, w, gamma_nr, a, eps_inf, eps_b) ==
    CAdd(CDiv(Frac(1, mass),
              CSub(Re(w_res * w_res - w * w),
                   CMul(ImagUnit,
                        CMul(CAdd(Re(gamma_nr), Frac(2 * w * w, 3 * mass)),
                             Re(w))))),
         CDiv(CMul(Re(a * a * a), CSub(eps_inf, eps_b)),
              CAdd(eps_inf, CMul(Re(2), eps_b))))

\* w is a scalar or an array of frequencies
sparse_polarizability_tensor(mass, w_res, w, gamma_nr, a, eps_inf, eps_b) ==
    [status |-> "ok",
     shape |-> IF w.array /\ Len(w.data) > 1 THEN <<Len(w.data), 3, 3>>
               ELSE <<3, 3>>,
     alpha_ij |->
         Stack(LAMBDA m :
                   Masked(alpha_0_xx(mass, w_res, w.data[m], gamma_nr, a,
                                     eps_inf, eps_b), 1),
               Len(w.data))]

\* the tensor of a sphere: the same component along the three axes
sphere_alpha_ij(alpha, isolate_mode) ==
    distribute_sphere_alpha_components_into_tensor(alpha, alpha, alpha,
                                                   isolate_mode)

\* the retarded polarizability, one datum per drive frequency
sphere_alphaMW(alphaR, eps_b, a, w) ==
    [array |-> w.array,
     data |-> Stack(LAMBDA m :
                  retarded(alphaR, CMul(Re(w.data[m]), SqrtFrac(eps_b)),
                           Re(a), One),
                  Len(w.data))]

\* (mutant) alphaR without the division of a**3 by 3
sparse_ret_sphere_polarizability_whole_cube(eps, eps_b, a, w, isolate_mode) ==
    sphere_alpha_ij(
        sphere_alphaMW(
            CMul(Re(a * a * a),
                 CDiv(CSub(eps, eps_b),
                      CAdd(eps_b, CMul(Frac(1, 3), CSub(eps, eps_b))))),
            eps_b, a, w),
        isolate_mode)

\* alphaR is (a**3/3)*(eps - eps_b)/(eps_b + (1/3)*(eps - eps_b))
sparse_ret_sphere_polarizability(eps, eps_b, a, w, isolate_mode) ==
    sphere_alpha_ij(
        sphere_alphaMW(
            CMul(Frac(a * a * a, 3),
                 CDiv(CSub(eps, eps_b),
                      CAdd(eps_b, CMul(Frac(1, 3), CSub(eps, eps_b))))),
            eps_b, a, w),
        isolate_mode)

\* alphaTME_ii of the T-matrix expansion from eps_r = eps/eps_b and
\* ka = w*sqrt(eps_b)/c * a
alphaTME_ii(eps_r, ka, a) ==
    CMul(CDiv(CSub(eps_r, One),
              CSub(CSub(CAdd(eps_r, Re(2)),
                        CMul(CSub(CMul(Re(6), eps_r), Re(12)),
                             CDiv(CPow(ka, 2), Re(10)))),
                   CMul(CMul(ImagUnit, CDiv(CMul(Re(2), CPow(ka, 3)), Re(3))),
                        CSub(eps_r, One)))),
         Re(a * a * a))

sparse_sphere_polarizability_TMatExp(eps, eps_b, a, w, isolate_mode) ==
    sphere_alpha_ij(
        [array |-> w.array,
         data |-> Stack(LAMBDA m :
                      alphaTME_ii(CDiv(eps, eps_b),
                                  CMul(CMul(Re(w.data[m]), SqrtFrac(eps_b)),
                                       Re(a)),
                                  a),
                      Len(w.data))],
        isolate_mode)

\* 1j*3/(2*k**3) * a_mie, one datum per drive frequency.  a_mie, the dipole
\* Mie coefficient, is the quotient of spherical Bessel and Hankel terms
\* that scipy evaluates; it is an argument here
alphaTME(eps_b, w, a_mie) ==
    [array |-> w.array,
     data |-> Stack(LAMBDA m :
                  CMul(CDiv(CMul(ImagUnit, Re(3)),
                            CMul(Re(2),
                                 CPow(CMul(Re(w.data[m]), SqrtFrac(eps_b)), 3))),
                       a_mie),
                  Len(w.data))]

sparse_sphere_polarizability_Mie(eps, eps_b, a, w, isolate_mode, a_mie) ==
    sphere_alpha_ij(alphaTME(eps_b, w, a_mie), isolate_mode)

(***************************************************************************)
(* The coupled-dipole solvers.  A solver returns a record whose status is  *)
(* "ok" (with the values the function returns and the locals the           *)
(* properties refer to) or the name of the exception it raises.  The       *)
(* locals of a function are the arguments of the operators that follow it  *)
(* in the order the function computes them.                                *)
(***************************************************************************)
\* (mutant) an inversion that masks a singular matrix instead of raising
inv_never_raises(stack) == FALSE

\* np.linalg.inv raises when one matrix of the stack is singular
inv_raises(stack) ==
    \E n \in 1..Len(stack) : MatFinite(stack[n]) /\ IsZero(Det3(stack[n]))

\* np.linalg.inv of a stack of matrices
inv_stack(stack) == Stack(LAMBDA n : inv(stack[n]), Len(stack))

\* np.identity(3) - alpha_0 @ G_d @ alpha_1 @ G_d, one matrix per separation
round_trip(alpha_0, alpha_1, G_d) ==
    Stack(LAMBDA n :
              MatSub(Identity3,
                     MatMul(MatMul(MatMul(alpha_0, G_d[n]), alpha_1), G_d[n])),
          Len(G_d))

\* p0 and p1 of coupled_dip_mags_both_driven from geometric_coupling_01
both_driven_moments(geometric_coupling_01, alpha_0, alpha_1, G_d, E_drive) ==
    [status |-> "ok",
     p0 |-> Stack(LAMBDA n :
         MatVec(MatMul(geometric_coupling_01[n],
                    MatMul(alpha_0, MatAdd(Identity3, MatMul(G_d[n], alpha_1)))),
                E_drive), Len(G_d)),
     p1 |-> Stack(LAMBDA n :
         MatVec(MatMul(geometric_coupling_01[n],
                    MatMul(alpha_1, MatAdd(Identity3, MatMul(G_d[n], alpha_0)))),
                E_drive), Len(G_d)),
     alpha_0 |-> alpha_0,
     alpha_1 |-> alpha_1,
     G_d |-> G_d,
     E_drive |-> E_drive]

\* the function from its lab-frame tensors, coupling tensors and drive
\* field: the inversion and what follows it
both_driven_in_lab(alpha_0, alpha_1, G_d, E_drive) ==
    IF inv_raises(round_trip(alpha_0, alpha_1, G_d)) THEN Raised(LinAlgError)
    ELSE both_driven_moments(inv_stack(round_trip(alpha_0, alpha_1, G_d)),
                             alpha_0, alpha_1, G_d, E_drive)

coupled_dip_mags_both_driven(mol_angle, plas_angle, d_col, E_d_angle, drive_hbar_w, alpha0_diag, alpha1_diag, n_b, drive_amp, G_forced_zero, expi) ==
    both_driven_in_lab(
        rotate_tensor(mol_angle, alpha0_diag),
        rotate_tensor(plas_angle, alpha1_diag),
        G_or_zero(G_forced_zero, drive_hbar_w, d_col, n_b, expi),
        drive_field(IF E_d_angle = None THEN mol_angle ELSE E_d_angle,
                    drive_amp))

\* p0 and alpha_0 from the lab-frame tensor and the drive field
single_dip_moment(alpha_0, E_drive) ==
    [status |-> "ok", p0 |-> MatVec(alpha_0, E_drive), alpha_0 |-> alpha_0]

single_dip_mag_pw(angle, E_d_angle, alpha0_diag, drive_amp) ==
    single_dip_moment(rotate_tensor(angle, alpha0_diag),
                      drive_field(IF E_d_angle = None THEN angle
                                  ELSE E_d_angle, drive_amp))

\* rotate_molecule for angles in the focal plane (mol_angle and E_d_angle
\* of at most one dimension): the lab-frame tensor and the drive field
rotate_molecule(mol_angle, alpha0_diag, E_d_angle, drive_amp) ==
    [alpha_0 |-> rotate_tensor(mol_angle, alpha0_diag),
     E_drive |-> MatVec(rotation_by(IF E_d_angle = None THEN mol_angle
                                    ELSE E_d_angle),
                        VecScale(drive_amp, <<One, Zero, Zero>>))]

\* p0_unc from what rotate_molecule returns
uncoupled_moment(rotated) ==
    [status |-> "ok",
     p0_unc |-> MatVec(rotated.alpha_0, rotated.E_drive),
     alpha_0 |-> rotated.alpha_0]

uncoupled_p0(mol_angle, E_d_angle, alpha_0_p0, drive_amp) ==
    uncoupled_moment(rotate_molecule(mol_angle, alpha_0_p0, E_d_angle,
                                     drive_amp))

\* dipole_mags_gened with the particle also driven by the incident field
gened_moments_particle_driven(p0, alpha_0, alpha_1, G_d, E_drive) ==
    [status |-> "ok",
     p0 |-> p0,
     p1 |-> Stack(LAMBDA n : MatVec(alpha_1,
                                    VecAdd(E_drive, MatVec(G_d[n], p0[n]))),
                  Len(G_d)),
     alpha_0 |-> alpha_0,
     alpha_1 |-> alpha_1,
     G_d |-> G_d,
     E_drive |-> E_drive]

\* p1 of dipole_mags_gened from p0
gened_moments(p0, alpha_0, alpha_1, G_d, E_drive) ==
    [status |-> "ok",
     p0 |-> p0,
     p1 |-> Stack(LAMBDA n : MatVec(MatMul(alpha_1, G_d[n]), p0[n]), Len(G_d)),
     alpha_0 |-> alpha_0,
     alpha_1 |-> alpha_1,
     G_d |-> G_d,
     E_drive |-> E_drive]

\* p0 of dipole_mags_gened from geometric_coupling_01
gened_p0(geometric_coupling_01, alpha_0, E_drive) ==
    Stack(LAMBDA n : MatVec(MatMul(geometric_coupling_01[n], alpha_0), E_drive),
          Len(geometric_coupling_01))

\* the function from what rotate_molecule returns, the lab-frame tensor of
\* the particle and the coupling tensors
gened_in_lab(rotated, alpha_1, G_d) ==
    IF inv_raises(round_trip(rotated.alpha_0, alpha_1, G_d))
    THEN Raised(LinAlgError)
    ELSE gened_moments(
             gened_p0(inv_stack(round_trip(rotated.alpha_0, alpha_1, G_d)),
                      rotated.alpha_0, rotated.E_drive),
             rotated.alpha_0, alpha_1, G_d, rotated.E_drive)

dipole_mags_gened(mol_angle, plas_angle, d_col, E_d_angle, drive_hbar_w, alpha0_diag, alpha1_diag, n_b, drive_amp, G_forced_zero, expi) ==
    gened_in_lab(rotate_molecule(mol_angle, alpha0_diag, E_d_angle, drive_amp),
                 rotate_tensor(plas_angle, alpha1_diag),
                 G_or_zero(G_forced_zero, drive_hbar_w, d_col, n_b, expi))

\* mol_dipole_mag is a record [ndim, data]; only a one-dimensional array of
\* dipole magnitudes is accepted.  A stack of num tensors and a stack of N
\* combine sample by sample when num = N or one of them is 1.
TypeError == "TypeError"

\* the entry of a stack that broadcasting pairs with sample n
at(stack, n) == IF Len(stack) = 1 THEN stack[1] ELSE stack[n]

\* alpha_0 of plas_dip_driven_by_mol, one tensor per dipole magnitude
one_way_alpha_0(mol_angle, mol_dipole_mag, drive_amp) ==
    Stack(LAMBDA m :
              rotate_tensor(mol_angle,
                  Diag(CDiv(mol_dipole_mag.data[m], drive_amp), Zero, Zero)),
          Len(mol_dipole_mag.data))

\* the argument of the np.linalg.inv call of plas_dip_driven_by_mol
one_way_to_invert(alpha_0, alpha_1, G_d, count) ==
    Stack(LAMBDA n :
              MatSub(Identity3,
                  MatMul(MatMul(MatMul(at(alpha_0, n), at(G_d, n)), alpha_1),
                         at(G_d, n))),
          count)

one_way_moments(p0, alpha_0, alpha_1, G_d, E_drive, count) ==
    [status |-> "ok",
     p0 |-> p0,
     p1 |-> Stack(LAMBDA n : MatVec(MatMul(alpha_1, at(G_d, n)), at(p0, n)),
                  count),
     alpha_0 |-> alpha_0,
     alpha_1 |-> alpha_1,
     G_d |-> G_d,
     E_drive |-> E_drive]

one_way_in_lab(mol_dipole_mag, alpha_0, alpha_1, G_d, E_drive) ==
    IF mol_dipole_mag.ndim # 1 THEN Raised(TypeError)
    ELSE IF Len(G_d) # Len(alpha_0) /\ Len(G_d) # 1 /\ Len(alpha_0) # 1
    THEN Raised(ValueError)
    ELSE IF inv_raises(one_way_to_invert(alpha_0, alpha_1, G_d,
                                         Max(Len(G_d), Len(alpha_0))))
    THEN Raised(LinAlgError)
    ELSE one_way_moments(Stack(LAMBDA m : MatVec(alpha_0[m], E_drive),
                               Len(alpha_0)),
                         alpha_0, alpha_1, G_d, E_drive,
                         Max(Len(G_d), Len(alpha_0)))

plas_dip_driven_by_mol(mol_angle, plas_angle, d_col, mol_dipole_mag, E_d_angle, drive_hbar_w, alpha1_diag, n_b, drive_amp, G_forced_zero, expi) ==
    one_way_in_lab(mol_dipole_mag,
        one_way_alpha_0(mol_angle, mol_dipole_mag, drive_amp),
        rotate_tensor(plas_angle, alpha1_diag),
        G_or_zero(G_forced_zero, drive_hbar_w, d_col, n_b, expi),
        drive_field(IF E_d_angle = None THEN mol_angle ELSE E_d_angle,
                    drive_amp))

\* aff.E_field(...).T*drive_amp after the division by beam_power**0.5: the
\* field the beam-field provider gives at displacement xi along x from the
\* beam centre.  beam_field is the provider's table of normalised samples.
E_field(beam_field, xi, drive_amp) == VecScale(drive_amp, beam_field[xi])

\* E_1: the beam field at the particle, p1_position = p0_position - d_col,
\* one sample per separation
beam_at_particle(beam_field, beam_x_positions, p0_position, d_col, drive_amp) ==
    Stack(LAMBDA n :
              E_field(beam_field,
                      beam_x_positions - (p0_position[1] - d_col[n][1]),
                      drive_amp), Len(d_col))

focused_beam_moments(geometric_coupling_01, alpha_0, alpha_1, G_d, E_0, E_1) ==
    [status |-> "ok",
     p0 |-> Stack(LAMBDA n :
         MatVec(MatMul(MatMul(geometric_coupling_01[n], alpha_0),
                       MatAdd(Identity3, MatMul(G_d[n], alpha_1))),
                E_0), Len(G_d)),
     p1 |-> Stack(LAMBDA n :
         MatVec(MatMul(MatMul(geometric_coupling_01[n], alpha_1),
                       MatAdd(Identity3, MatMul(G_d[n], alpha_0))),
                E_0), Len(G_d)),
     alpha_0 |-> alpha_0,
     alpha_1 |-> alpha_1,
     G_d |-> G_d,
     E_0 |-> E_0,
     E_1 |-> E_1]

focused_beam_in_lab(alpha_0, alpha_1, G_d, E_0, E_1) ==
    IF inv_raises(round_trip(alpha_0, alpha_1, G_d)) THEN Raised(LinAlgError)
    ELSE focused_beam_moments(inv_stack(round_trip(alpha_0, alpha_1, G_d)),
                              alpha_0, alpha_1, G_d, E_0, E_1)

\* one beam position; p0_position is a 3-vector
coupled_dip_mags_focused_beam(mol_angle, plas_angle, d_col, p0_position, beam_x_positions, E_d_angle, drive_hbar_w, alpha0_diag, alpha1_diag, n_b, drive_amp, G_forced_zero, expi, beam_field) ==
    IF E_d_angle = None THEN Raised(TypeError)
    ELSE focused_beam_in_lab(
             rotate_tensor(mol_angle, alpha0_diag),
             rotate_tensor(plas_angle, alpha1_diag),
             G_or_zero(G_forced_zero, drive_hbar_w, d_col, n_b, expi),
             E_field(beam_field, beam_x_positions - p0_position[1], drive_amp),
             beam_at_particle(beam_field, beam_x_positions, p0_position,
                              d_col, drive_amp))

(***************************************************************************)
(* Cross sections, in units of pi: the sigma fields hold sigma/pi.  The    *)
(* callable dipoles_moments_per_omega is the pair of moment arrays it      *)
(* returns, each of shape (N,3) with N the number of separations.          *)
(***************************************************************************)
\* np.sum(np.imag(p * np.conj(q)), axis=-1)
ImSum(p, q) ==
    Sum3(CImag(CMul(p[1], CConj(q[1]))), CImag(CMul(p[2], CConj(q[2]))),
         CImag(CMul(p[3], CConj(q[3]))))

\* (2 / 3) * k**3 * np.abs(np.linalg.norm(p, axis=-1))**2.
diag_term(k, p) ==
    CMul(Frac(2 * k * k * k, 3), Sum3(CAbs2(p[1]), CAbs2(p[2]), CAbs2(p[3])))

\* (mutant) the scattering of one dipole without the division by n_b
single_dip_sigma_scat_in_vacuum(p_0, drive_hbar_w, n_b, E_0) ==
    Stack(LAMBDA n : CMul(CDiv(Re(4 * drive_hbar_w * n_b), CAbs2(E_0)),
                          diag_term(drive_hbar_w * n_b, p_0[n])),
          Len(p_0))

single_dip_sigma_scat(p_0, drive_hbar_w, n_b, E_0) ==
    Stack(LAMBDA n :
              CDiv(CMul(CDiv(Re(4 * drive_hbar_w * n_b), CAbs2(E_0)),
                        diag_term(drive_hbar_w * n_b, p_0[n])),
                   Re(n_b)),
          Len(p_0))

\* the interference term of the scattering, at separation n
interference_term(p_0, p_1, G_d, n) ==
    CAdd(ImSum(p_0[n], MatVec(G_d[n], p_1[n])),
         ImSum(p_1[n], MatVec(G_d[n], p_0[n])))

\* sigma and its three terms from G_d, k and the prefactor 4 k / |E_0|**2
scat_from(p_0, p_1, G_d, k, prefactor, n_b) ==
    [status |-> "ok",
     sigma |-> Stack(LAMBDA n :
                   CDiv(CMul(prefactor,
                             Sum3(interference_term(p_0, p_1, G_d, n),
                                  diag_term(k, p_0[n]),
                                  diag_term(k, p_1[n]))),
                        Re(n_b)), Len(G_d)),
     terms |-> Stack(LAMBDA n :
                   VecScale(CDiv(prefactor, Re(n_b)),
                            <<interference_term(p_0, p_1, G_d, n),
                              diag_term(k, p_0[n]),
                              diag_term(k, p_1[n])>>), Len(G_d))]

sigma_scat_coupled(p_0, p_1, d_col, drive_hbar_w, n_b, E_0, G_forced_zero, expi) ==
    scat_from(p_0, p_1,
              G_or_zero(G_forced_zero, drive_hbar_w, d_col, n_b, expi),
              drive_hbar_w * n_b,
              CDiv(Re(4 * drive_hbar_w * n_b), CAbs2(E_0)), n_b)

\* (mutant) the absorption of one dipole with the radiated power added
absorption_plus_scat_from(unc, k, drive_amp) ==
    [status |-> "ok",
     sigma |-> CMul(CDiv(Re(4 * k), CAbs2(drive_amp)),
                    CAdd(ImSum(unc.p0_unc,
                               MatVec(inv(unc.alpha_0), unc.p0_unc)),
                         diag_term(k, unc.p0_unc)))]

single_dip_absorption_plus_scat(mol_angle, E_d_angle, alpha_0_p0, drive_hbar_w, drive_amp, n_b) ==
    absorption_plus_scat_from(
        uncoupled_p0(mol_angle, E_d_angle, alpha_0_p0, drive_amp),
        drive_hbar_w * n_b, drive_amp)

\* the absorption from what uncoupled_p0 returns
absorption_from(unc, k, drive_amp) ==
    IF inv_raises(<<unc.alpha_0>>) THEN Raised(LinAlgError)
    ELSE [status |-> "ok",
          sigma |-> CMul(CDiv(Re(4 * k), CAbs2(drive_amp)),
                         CSub(ImSum(unc.p0_unc,
                                    MatVec(inv(unc.alpha_0), unc.p0_unc)),
                              diag_term(k, unc.p0_unc)))]

single_dip_absorption(mol_angle, E_d_angle, alpha_0_p0, drive_hbar_w, drive_amp, n_b) ==
    absorption_from(uncoupled_p0(mol_angle, E_d_angle, alpha_0_p0, drive_amp),
                    drive_hbar_w * n_b, drive_amp)

\* the interference term of a dipole in the absorption, at separation n
interference_term_abs(alpha_inv, p, n) == ImSum(p[n], MatVec(alpha_inv, p[n]))

\* sigma and its four terms from the moments and the inverse tensors
abs_terms(p_0, p_1, alpha_0_inv, alpha_1_inv, k, prefactor) ==
    [status |-> "ok",
     sigma |-> Stack(LAMBDA n :
         CMul(prefactor,
              CSub(CSub(CAdd(interference_term_abs(alpha_0_inv, p_0, n),
                             interference_term_abs(alpha_1_inv, p_1, n)),
                        diag_term(k, p_0[n])),
                   diag_term(k, p_1[n]))), Len(p_0)),
     terms |-> Stack(LAMBDA n :
         <<CMul(prefactor, interference_term_abs(alpha_0_inv, p_0, n)),
           CMul(prefactor, diag_term(k, p_0[n])),
           CMul(prefactor, interference_term_abs(alpha_1_inv, p_1, n)),
           CMul(prefactor, diag_term(k, p_1[n]))>>, Len(p_0))]

\* the absorption from what coupled_dip_mags_both_driven returns
abs_from(moments, k, prefactor) ==
    IF moments.status # "ok" THEN Raised(moments.status)
    ELSE IF inv_raises(<<moments.alpha_0>>) \/ inv_raises(<<moments.alpha_1>>)
    THEN Raised(LinAlgError)
    ELSE abs_terms(moments.p0, moments.p1, inv(moments.alpha_0),
                   inv(moments.alpha_1), k, prefactor)

sigma_abs_coupled(mol_angle, plas_angle, d_col, E_d_angle, drive_hbar_w, alpha0_diag, alpha1_diag, n_b, drive_amp, G_forced_zero, expi) ==
    abs_from(coupled_dip_mags_both_driven(mol_angle, plas_angle, d_col,
                 E_d_angle, drive_hbar_w, alpha0_diag, alpha1_diag, n_b,
                 drive_amp, G_forced_zero, expi),
             drive_hbar_w * n_b,
             CDiv(Re(4 * drive_hbar_w * n_b), CAbs2(drive_amp)))

(***************************************************************************)
(* Inputs.                                                                 *)
(***************************************************************************)
Angles == {Angle(1, 0, 1), Angle(3, 4, 5), Angle(0, 1, 1)}
PlasAngles == {Angle(1, 0, 1), Angle(0, 1, 1)}
DriveAngles == {None, Angle(0, 1, 1)}
AlphaVals == {Re(n) : n \in 1..MaxAlpha} \cup {Cx(1, 1)}
\* the fluorophore tensor (one principal component) and spheroid tensors
FluorophoreTensors == {Diag(a, Zero, Zero) : a \in AlphaVals}
SpheroidTensors == {Diag(a, One, One) : a \in AlphaVals}
SeparationBatches == { << <<0, 1, 0>> >>, << <<1, 0, 0>> >>,
                       << <<1, 0, 0>>, <<0, 1, 0>> >> }
DipoleMags == { [ndim |-> 1, data |-> <<One>>],
                [ndim |-> 1, data |-> <<One, Cx(1, 1)>>],
                [ndim |-> 2, data |-> <<One>>] }
\* two tables of the beam-field provider: a uniform field, and a field
\* that falls off with the distance from the beam centre
BeamFields ==
    { [xi \in -2..2 |-> <<One, Zero, Zero>>],
      [xi \in -2..2 |-> IF xi = 0 THEN <<Re(2), Zero, Zero>>
                        ELSE IF xi \in {-1, 1} THEN <<One, ImagUnit, Zero>>
                        ELSE ZeroVec] }
\* the value np.exp(1j) is taken to have
exp_1j == ImagUnit

\* inputs of the polarizability functions
Modes == {ModeNone, "long", "short", "trans", "both"}
EpsVals == {Cx(-2, 1), Re(4)}
\* (a_x, a_yz): prolate, oblate and equal semi-axes, and a negative a_x
SemiAxes == {<<Frac(5, 4), One>>, <<Frac(4, 5), One>>, <<One, One>>,
             <<Frac(-3, 5), One>>}
\* radii of the MLWA sphere, a negative one among them
Radii == {-1, 1, 2}
\* a scalar drive energy, or an array of up to MaxSeps of them
DriveEnergies == {Scalar(k) : k \in 0..MaxK}
                     \cup {Array(Stack(LAMBDA m : m % (MaxK + 1), n)) :
                              n \in 1..MaxSeps}
\* values of the dipole Mie coefficient
MieCoefficients == {One, Cx(1, 1)}
\* inputs of G: batches of separation vectors, the zero vector among them
SeparationVectors == {<<0, 0, 0>>, <<1, 0, 0>>, <<0, 2, 0>>}
GBatches == UNION {[1..n -> SeparationVectors] : n \in 1..MaxSeps}
\* inputs of vec_mag: arrays of one to three dimensions, last axis 3
VectorShapes == {<<3>>, <<1, 3>>, <<2, 3>>, <<1, 2, 3>>, <<2, 1, 3>>,
                 <<2, 2, 3>>}
Vectors == {<<1, 0, 0>>, <<0, 2, 0>>, <<0, 3, 4>>}
\* the number of vectors in an array of the shape
VectorCount(shape) ==
    IF Len(shape) = 1 THEN 1
    ELSE IF Len(shape) = 2 THEN shape[1] ELSE shape[1] * shape[2]
\* a per-axis polarizability as distribute receives it: a scalar (N = 0) or
\* an array of N frequency samples, sample m being m * alpha
Sweep(alpha, N) ==
    IF N = 0 THEN Scalar(alpha)
    ELSE Array(Stack(LAMBDA m : CMul(Re(m), alpha), N))
\* inputs of rotation_by: angles of the four quadrants, and the axes (an
\* axis that is none of 'x', 'y', 'z' among them)
RotationAngles == {Angle(1, 0, 1), Angle(3, 4, 5), Angle(0, 1, 1),
                   Angle(-4, 3, 5), Angle(-1, 0, 1), Angle(-3, -4, 5),
                   Angle(0, -1, 1), Angle(4, -3, 5)}
RotationAxes == {"x", "y", "z", "n"}
\* inputs of the cross sections
MomentVectors == {ZeroVec, <<One, Zero, Zero>>, <<Cx(1, 1), ImagUnit, Zero>>}
Moments(N) == [1..N -> MomentVectors]
DriveAmps == {One, Cx(0, 2)}

(***************************************************************************)
(* State: the operation last called, its arguments and what it returned.   *)
(* The numbers are exact and integers are 32 bits wide,                    *)
(* so an emitter at an oblique angle is coupled to the particle only by    *)
(* the static Green tensor (drive_hbar_w = 0).                             *)
(***************************************************************************)
VARIABLES op, args, ret

vars == <<op, args, ret>>

Init == op = "idle" /\ args = <<>> /\ ret = <<>>

Return == op # "idle" /\ op' = "idle" /\ args' = <<>> /\ ret' = <<>>

CallBothDriven ==
    /\ op = "idle"
    /\ \E mol_angle \in Angles, plas_angle \in PlasAngles,
          d_col \in SeparationBatches, E_d_angle \in DriveAngles,
          drive_hbar_w \in 0..MaxK, alpha0_diag \in FluorophoreTensors,
          alpha1_diag \in SpheroidTensors, G_forced_zero \in BOOLEAN :
        /\ G_forced_zero \/ mol_angle \in PlasAngles \/ drive_hbar_w = 0
        /\ op' = "coupled_dip_mags_both_driven"
        /\ args' = [mol_angle |-> mol_angle, plas_angle |-> plas_angle,
                    d_col |-> d_col, E_d_angle |-> E_d_angle,
                    drive_hbar_w |-> drive_hbar_w,
                    alpha0_diag |-> alpha0_diag, alpha1_diag |-> alpha1_diag,
                    n_b |-> 1, drive_amp |-> One,
                    G_forced_zero |-> G_forced_zero]
        /\ ret' = coupled_dip_mags_both_driven(mol_angle, plas_angle, d_col,
                      E_d_angle, drive_hbar_w, alpha0_diag, alpha1_diag, 1,
                      One, G_forced_zero, exp_1j)

CallDipoleMagsGened ==
    /\ op = "idle"
    /\ \E mol_angle \in Angles, plas_angle \in PlasAngles,
          d_col \in SeparationBatches, E_d_angle \in DriveAngles,
          drive_hbar_w \in 0..MaxK, alpha0_diag \in FluorophoreTensors,
          alpha1_diag \in SpheroidTensors, G_forced_zero \in BOOLEAN :
        /\ G_forced_zero \/ mol_angle \in PlasAngles \/ drive_hbar_w = 0
        /\ op' = "dipole_mags_gened"
        /\ args' = [mol_angle |-> mol_angle, plas_angle |-> plas_angle,
                    d_col |-> d_col, E_d_angle |-> E_d_angle,
                    drive_hbar_w |-> drive_hbar_w,
                    alpha0_diag |-> alpha0_diag, alpha1_diag |-> alpha1_diag,
                    n_b |-> 1, drive_amp |-> One,
                    G_forced_zero |-> G_forced_zero]
        /\ ret' = dipole_mags_gened(mol_angle, plas_angle, d_col,
                      E_d_angle, drive_hbar_w, alpha0_diag, alpha1_diag, 1,
                      One, G_forced_zero, exp_1j)

CallPlasDipDrivenByMol ==
    /\ op = "idle"
    /\ \E mol_angle \in Angles, plas_angle \in PlasAngles,
          d_col \in SeparationBatches, mol_dipole_mag \in DipoleMags,
          E_d_angle \in DriveAngles, drive_hbar_w \in 0..MaxK,
          alpha1_diag \in SpheroidTensors :
        /\ mol_angle \in PlasAngles \/ drive_hbar_w = 0
        /\ op' = "plas_dip_driven_by_mol"
        /\ args' = [mol_angle |-> mol_angle, plas_angle |-> plas_angle,
                    d_col |-> d_col, mol_dipole_mag |-> mol_dipole_mag,
                    E_d_angle |-> E_d_angle, drive_hbar_w |-> drive_hbar_w,
                    alpha1_diag |-> alpha1_diag, n_b |-> 1, drive_amp |-> One,
                    G_forced_zero |-> FALSE]
        /\ ret' = plas_dip_driven_by_mol(mol_angle, plas_angle, d_col,
                      mol_dipole_mag, E_d_angle, drive_hbar_w, alpha1_diag, 1,
                      One, FALSE, exp_1j)

CallFocusedBeam ==
    /\ op = "idle"
    /\ \E mol_angle \in Angles, plas_angle \in PlasAngles,
          d_col \in SeparationBatches, beam_x_positions \in 0..1,
          E_d_angle \in DriveAngles, drive_hbar_w \in 0..MaxK,
          alpha0_diag \in FluorophoreTensors, alpha1_diag \in SpheroidTensors,
          beam_field \in BeamFields :
        /\ mol_angle \in PlasAngles \/ drive_hbar_w = 0
        /\ op' = "coupled_dip_mags_focused_beam"
        /\ args' = [mol_angle |-> mol_angle, plas_angle |-> plas_angle,
                    d_col |-> d_col, p0_position |-> <<0, 0, 0>>,
                    beam_x_positions |-> beam_x_positions,
                    E_d_angle |-> E_d_angle, drive_hbar_w |-> drive_hbar_w,
                    alpha0_diag |-> alpha0_diag, alpha1_diag |-> alpha1_diag,
                    n_b |-> 1, drive_amp |-> One, G_forced_zero |-> FALSE,
                    beam_field |-> beam_field]
        /\ ret' = coupled_dip_mags_focused_beam(mol_angle, plas_angle, d_col,
                      <<0, 0, 0>>, beam_x_positions, E_d_angle, drive_hbar_w,
                      alpha0_diag, alpha1_diag, 1, One, FALSE, exp_1j,
                      beam_field)

CallUncoupledP0 ==
    /\ op = "idle"
    /\ \E mol_angle \in RotationAngles, E_d_angle \in DriveAngles,
          alpha_0_p0 \in FluorophoreTensors, drive_amp \in DriveAmps :
        /\ op' = "uncoupled_p0"
        /\ args' = [mol_angle |-> mol_angle, E_d_angle |-> E_d_angle,
                    alpha_0_p0 |-> alpha_0_p0, drive_amp |-> drive_amp]
        /\ ret' = uncoupled_p0(mol_angle, E_d_angle, alpha_0_p0, drive_amp)

SolverNext ==
    \/ CallUncoupledP0
    \/ CallBothDriven
    \/ CallDipoleMagsGened
    \/ CallPlasDipDrivenByMol
    \/ CallFocusedBeam
    \/ Return

SolverSpec == Init /\ [][SolverNext]_vars

(***************************************************************************)
(* The polarizability functions and the coupling tensor.                   *)
(***************************************************************************)
\* The spheroid is called at zero frequency: the exact value of its
\* retardation terms at w > 0 needs integers wider than 32 bits.
CallSpheroidPolarizability ==
    /\ op = "idle"
    /\ \E eps \in EpsVals, axes \in SemiAxes, w \in {0},
          isolate_mode \in Modes :
        /\ op' = "sparse_ret_prolate_spheroid_polarizability"
        /\ args' = [eps |-> eps, eps_b |-> One, a_x |-> axes[1],
                    a_yz |-> axes[2], w |-> w, isolate_mode |-> isolate_mode]
        /\ ret' = sparse_ret_prolate_spheroid_polarizability(eps, One,
                      axes[1], axes[2], w, isolate_mode)

CallSpherePolarizability ==
    /\ op = "idle"
    /\ \E eps \in EpsVals, a \in Radii, w \in DriveEnergies,
          isolate_mode \in Modes :
        /\ op' = "sparse_ret_sphere_polarizability"
        /\ args' = [eps |-> eps, eps_b |-> One, a |-> a, w |-> w,
                    isolate_mode |-> isolate_mode]
        /\ ret' = sparse_ret_sphere_polarizability(eps, One, a, w,
                                                   isolate_mode)

CallTMatExpPolarizability ==
    /\ op = "idle"
    /\ \E eps \in EpsVals, a \in 1..2, w \in DriveEnergies,
          isolate_mode \in Modes :
        /\ op' = "sparse_sphere_polarizability_TMatExp"
        /\ args' = [eps |-> eps, eps_b |-> One, a |-> a, w |-> w,
                    isolate_mode |-> isolate_mode]
        /\ ret' = sparse_sphere_polarizability_TMatExp(eps, One, a, w,
                                                       isolate_mode)

CallMiePolarizability ==
    /\ op = "idle"
    /\ \E eps \in EpsVals, a \in 1..2, w \in DriveEnergies,
          isolate_mode \in Modes, a_mie \in MieCoefficients :
        /\ op' = "sparse_sphere_polarizability_Mie"
        /\ args' = [eps |-> eps, eps_b |-> One, a |-> a, w |-> w,
                    isolate_mode |-> isolate_mode, a_mie |-> a_mie]
        /\ ret' = sparse_sphere_polarizability_Mie(eps, One, a, w,
                                                   isolate_mode, a_mie)

CallDistribute ==
    /\ op = "idle"
    /\ \E alpha_11 \in AlphaVals, alpha_22 \in AlphaVals,
          alpha_33 \in AlphaVals, N \in 0..MaxSeps, isolate_mode \in Modes :
        /\ op' = "distribute_sphere_alpha_components_into_tensor"
        /\ args' = [alpha_11 |-> Sweep(alpha_11, N),
                    alpha_22 |-> Sweep(alpha_22, N),
                    alpha_33 |-> Sweep(alpha_33, N),
                    isolate_mode |-> isolate_mode]
        /\ ret' = distribute_sphere_alpha_components_into_tensor(
                      Sweep(alpha_11, N), Sweep(alpha_22, N),
                      Sweep(alpha_33, N), isolate_mode)

CallFluorophoreTensor ==
    /\ op = "idle"
    /\ \E mass \in 1..2, w_res \in 2..3, w \in DriveEnergies,
          gamma_nr \in 0..1, eps_inf \in EpsVals :
        /\ op' = "sparse_polarizability_tensor"
        /\ args' = [mass |-> mass, w_res |-> w_res, w |-> w,
                    gamma_nr |-> gamma_nr, a |-> 1, eps_inf |-> eps_inf,
                    eps_b |-> One]
        /\ ret' = sparse_polarizability_tensor(mass, w_res, w, gamma_nr, 1,
                                               eps_inf, One)

CallVecMag ==
    /\ op = "idle"
    /\ \E shape \in VectorShapes :
         \E vecs \in [1..VectorCount(shape) -> Vectors] :
            /\ op' = "vec_mag"
            /\ args' = [row_vecs |-> [shape |-> shape, vecs |-> vecs]]
            /\ ret' = vec_mag_nd([shape |-> shape, vecs |-> vecs])

CallG ==
    /\ op = "idle"
    /\ \E drive_hbar_w \in DriveEnergies, d_col \in GBatches :
        /\ op' = "G"
        /\ args' = [drive_hbar_w |-> drive_hbar_w, d_col |-> d_col, n_b |-> 1]
        /\ ret' = G(drive_hbar_w, d_col, 1, exp_1j)

CallRotationBy ==
    /\ op = "idle"
    /\ \E by_angle \in RotationAngles, rot_axis \in RotationAxes :
        /\ op' = "rotation_by"
        /\ args' = [by_angle |-> by_angle, rot_axis |-> rot_axis]
        /\ ret' = [status |-> "ok",
                   R |-> rotation_by_axis(by_angle, rot_axis)]

TensorNext ==
    \/ CallSpheroidPolarizability
    \/ CallSpherePolarizability
    \/ CallTMatExpPolarizability
    \/ CallMiePolarizability
    \/ CallDistribute
    \/ CallG
    \/ CallVecMag
    \/ CallRotationBy
    \/ CallFluorophoreTensor
    \/ Return

TensorSpec == Init /\ [][TensorNext]_vars

(***************************************************************************)
(* The cross sections.                                                     *)
(***************************************************************************)
CallSigmaScatCoupled ==
    /\ op = "idle"
    /\ \E d_col \in SeparationBatches, drive_hbar_w \in 0..MaxK,
          n_b \in 1..2, E_0 \in DriveAmps, G_forced_zero \in BOOLEAN :
        \E p_0 \in Moments(Len(d_col)), p_1 \in Moments(Len(d_col)) :
            /\ op' = "sigma_scat_coupled"
            /\ args' = [p_0 |-> p_0, p_1 |-> p_1, d_col |-> d_col,
                        drive_hbar_w |-> drive_hbar_w, n_b |-> n_b,
                        E_0 |-> E_0, G_forced_zero |-> G_forced_zero]
            /\ ret' = sigma_scat_coupled(p_0, p_1, d_col, drive_hbar_w, n_b,
                                         E_0, G_forced_zero, exp_1j)

CallSingleDipSigmaScat ==
    /\ op = "idle"
    /\ \E N \in 1..2, drive_hbar_w \in 0..MaxK, n_b \in 1..2,
          E_0 \in DriveAmps :
        \E p_0 \in Moments(N) :
            /\ op' = "single_dip_sigma_scat"
            /\ args' = [p_0 |-> p_0, drive_hbar_w |-> drive_hbar_w,
                        n_b |-> n_b, E_0 |-> E_0]
            /\ ret' = [status |-> "ok",
                       sigma |-> single_dip_sigma_scat(p_0, drive_hbar_w,
                                                       n_b, E_0)]

CallSigmaAbsCoupled ==
    /\ op = "idle"
    /\ \E mol_angle \in Angles, plas_angle \in PlasAngles,
          d_col \in SeparationBatches, E_d_angle \in DriveAngles,
          drive_hbar_w \in 0..MaxK,
          alpha0_diag \in FluorophoreTensors \cup SpheroidTensors,
          alpha1_diag \in SpheroidTensors, n_b \in 1..2,
          G_forced_zero \in BOOLEAN :
        \* the coupled cases are drawn with the emitter along an axis, in
        \* vacuum
        /\ G_forced_zero \/ (mol_angle \in PlasAngles /\ n_b = 1)
        /\ op' = "sigma_abs_coupled"
        /\ args' = [mol_angle |-> mol_angle, plas_angle |-> plas_angle,
                    d_col |-> d_col, E_d_angle |-> E_d_angle,
                    drive_hbar_w |-> drive_hbar_w,
                    alpha0_diag |-> alpha0_diag, alpha1_diag |-> alpha1_diag,
                    n_b |-> n_b, drive_amp |-> Cx(0, 2),
                    G_forced_zero |-> G_forced_zero]
        /\ ret' = sigma_abs_coupled(mol_angle, plas_angle, d_col, E_d_angle,
                      drive_hbar_w, alpha0_diag, alpha1_diag, n_b, Cx(0, 2),
                      G_forced_zero, exp_1j)

CallSingleDipAbsorption ==
    /\ op = "idle"
    /\ \E mol_angle \in Angles, E_d_angle \in DriveAngles,
          alpha_0_p0 \in FluorophoreTensors \cup SpheroidTensors,
          drive_hbar_w \in 0..MaxK, drive_amp \in DriveAmps, n_b \in 1..2 :
        /\ op' = "single_dip_absorption"
        /\ args' = [mol_angle |-> mol_angle, E_d_angle |-> E_d_angle,
                    alpha_0_p0 |-> alpha_0_p0, drive_hbar_w |-> drive_hbar_w,
                    drive_amp |-> drive_amp, n_b |-> n_b]
        /\ ret' = single_dip_absorption(mol_angle, E_d_angle, alpha_0_p0,
                                        drive_hbar_w, drive_amp, n_b)

SigmaNext ==
    \/ CallSigmaScatCoupled
    \/ CallSingleDipSigmaScat
    \/ CallSigmaAbsCoupled
    \/ CallSingleDipAbsorption
    \/ Return

SigmaSpec == Init /\ [][SigmaNext]_vars

(***************************************************************************)
(* FitModelToData.fit_model_to_image_data.  While the function runs, ret   *)
(* holds its frame with status "running": the index i of the image being   *)
(* fitted (from 1), the two counters of the retry loop and                 *)
(* self.model_fit_results; tries and succeeded record, for every image,    *)
(* how many times opt.least_squares was called (counted up to one more     *)
(* than max_fail_converge) and whether one of the calls reported success.  *)
(* The images enter only through what                                      *)
(* opt.least_squares returns, which is drawn from FitOutcomes.  Positions  *)
(* are whole nanometres relative to the particle and angles whole degrees; *)
(* an entry of a row is a number Re(n) or NonFinite for nan.  ini_x and    *)
(* ini_y are the initial guess the next call of opt.least_squares starts   *)
(* from; ini_guess is an array.  return_full_fit_output is False and       *)
(* check_ini is False.                                                     *)
(***************************************************************************)
MaxImages == 2
MaxFail == 2
QuenchLimit == 100

\* arctan(|sin|/|cos|) of an angle in degrees
map_angles_to_first_quad(angles) ==
    IF angles % 180 <= 90 THEN angles % 180 ELSE 180 - (angles % 180)

\* afi.phi: np.arctan2(-y, -x) + np.pi, the polar angle of the point (x, y);
\* arctan2 of two zeros is a multiple of pi, so the origin has cosine 1 or -1
\* and sine 0 (cosine 1 for float zeros)
afi_phi(x, y) ==
    IF IsZero(x) /\ IsZero(y) THEN Angle(1, 0, 1)
    ELSE Angle(x.re * y.den, y.re * x.den,
               Sqrt(x.re * y.den * x.re * y.den + y.re * x.den * y.re * x.den))

\* FitModelToData._polar_ellipse_semi_r with a = quench_radius_a_nm and
\* c = quench_radius_c_nm
polar_ellipse_semi_r(phi_, a, c) ==
    CDiv(CMul(a, c),
         SqrtFrac(CAdd(CMul(CPow(c, 2), CPow(sin(phi_), 2)),
                       CMul(CPow(a, 2), CPow(cos(phi_), 2)))))

circ_to_cart(r, phi_) == <<CMul(r, cos(phi_)), CMul(r, sin(phi_))>>

\* FitModelToData._better_init_loc
better_init_loc(ini_x, ini_y, a, c) ==
    circ_to_cart(polar_ellipse_semi_r(afi_phi(ini_x, ini_y), a, c),
                 afi_phi(ini_x, ini_y))

\* the coordinates of the molecule in the frame of the rod
rotated_x(rod_angle, input_x_mol, input_y_mol) ==
    CAdd(CMul(cos(rod_angle), input_x_mol), CMul(sin(rod_angle), input_y_mol))

rotated_y(rod_angle, input_x_mol, input_y_mol) ==
    CAdd(CMul(CNeg(sin(rod_angle)), input_x_mol),
         CMul(cos(rod_angle), input_y_mol))

\* MolCoupNanoRodExp.mol_not_quenched: the molecule is outside the
\* quenching ellipse
mol_not_quenched(rod_angle, input_x_mol, input_y_mol, long_quench_radius, short_quench_radius) ==
    Greater(CAdd(CDiv(CPow(rotated_x(rod_angle, input_x_mol, input_y_mol), 2),
                      CPow(long_quench_radius, 2)),
                 CDiv(CPow(rotated_y(rod_angle, input_x_mol, input_y_mol), 2),
                      CPow(short_quench_radius, 2))),
            One)

\* np.zeros((num_of_images, 3)) or np.zeros((num_of_images, 4))
zero_results(num_of_images, let_mol_ori_out_of_plane) ==
    Stack(LAMBDA i : IF let_mol_ori_out_of_plane
                     THEN <<Zero, Zero, Zero, Zero>>
                     ELSE <<Zero, Zero, Zero>>, num_of_images)

\* the row stored for an image after its retry loop
fitted_row(optimized_fit, let_mol_ori_out_of_plane) ==
    IF ~optimized_fit.success
    THEN IF let_mol_ori_out_of_plane
         THEN <<NonFinite, NonFinite, NonFinite, NonFinite>>
         ELSE <<NonFinite, NonFinite, NonFinite>>
    ELSE IF let_mol_ori_out_of_plane
         THEN <<Re(optimized_fit.x[1]), Re(optimized_fit.x[2]),
                Re(optimized_fit.x[3]), Re(optimized_fit.x[4])>>
         ELSE <<Re(optimized_fit.x[1]), Re(optimized_fit.x[2]),
                Re(map_angles_to_first_quad(optimized_fit.x[3]))>>

\* the test that lets a fit that did not converge be tried again
may_retry_inclusive(fail_to_converge_counter, max_fail_converge) ==
    fail_to_converge_counter <= max_fail_converge

may_retry(fail_to_converge_counter, max_fail_converge) ==
    fail_to_converge_counter < max_fail_converge

\* the fit is in the quenching zone and check_fit_loc asks for the test
fit_loc_quenched(optimized_fit, call) ==
    /\ optimized_fit.success
    /\ call.check_fit_loc
    /\ ~mol_not_quenched(call.rod_angle, Re(optimized_fit.x[1]),
                         Re(optimized_fit.x[2]), call.quench_radius_a_nm,
                         call.quench_radius_c_nm)

\* the frame when the loop over the images is entered
fit_entered(call) ==
    [status |-> IF call.num_of_images = 0 THEN "ok" ELSE "running",
     i |-> 1,
     ini_x |-> call.ini_guess[1],
     ini_y |-> call.ini_guess[2],
     fit_quenched_counter |-> 1,
     fail_to_converge_counter |-> 1,
     model_fit_results |-> zero_results(call.num_of_images,
                                        call.let_mol_ori_out_of_plane),
     tries |-> Stack(LAMBDA i : 0, call.num_of_images),
     succeeded |-> Stack(LAMBDA i : FALSE, call.num_of_images),
     last |-> [image |-> 0, fits |-> 0, failed_in_a_row |-> 0,
               quenched_fits |-> 0,
               optimized_fit |-> [success |-> FALSE, x |-> <<>>],
               ini_x |-> call.ini_guess[1], ini_y |-> call.ini_guess[2],
               exit |-> "none"]]

\* the retry loop is left: the row of image i is stored and the loop over
\* the images goes on to the next image, or the function returns
loop_left(frame, optimized_fit, call, exit) ==
    [frame EXCEPT
        !.model_fit_results[frame.i] =
            fitted_row(optimized_fit, call.let_mol_ori_out_of_plane),
        !.status = IF frame.i = Len(frame.model_fit_results) THEN "ok"
                   ELSE "running",
        !.i = frame.i + 1,
        !.ini_x = call.ini_guess[1],
        !.ini_y = call.ini_guess[2],
        !.fit_quenched_counter = 1,
        !.fail_to_converge_counter = 1,
        !.last.exit = exit]

\* the test that accepts a fit in the quenching zone
quenched_once_more(fit_quenched_counter) ==
    fit_quenched_counter > QuenchLimit + 1

quenched_too_often(fit_quenched_counter) ==
    fit_quenched_counter > QuenchLimit

\* the initial guess is moved by _better_init_loc of itself
guess_kept(frame, call) == frame

guess_shifted(frame, call) ==
    [frame EXCEPT
        !.ini_x = CAdd(@, better_init_loc(frame.ini_x, frame.ini_y,
                                          call.quench_radius_a_nm,
                                          call.quench_radius_c_nm)[1]),
        !.ini_y = CAdd(@, better_init_loc(frame.ini_x, frame.ini_y,
                                          call.quench_radius_a_nm,
                                          call.quench_radius_c_nm)[2])]

\* what follows opt.least_squares in one pass of the retry loop
after_fit(frame, optimized_fit, call) ==
    IF ~optimized_fit.success
    THEN IF may_retry(frame.fail_to_converge_counter, call.max_fail_converge)
         THEN [frame EXCEPT !.fail_to_converge_counter = @ + 1]
         ELSE loop_left(frame, optimized_fit, call, "giving up")
    ELSE IF ~call.check_fit_loc
    THEN loop_left(frame, optimized_fit, call, "not checked")
    ELSE IF ~fit_loc_quenched(optimized_fit, call)
    THEN loop_left(frame, optimized_fit, call, "accepted")
    ELSE IF quenched_too_often(frame.fit_quenched_counter + 1)
    THEN loop_left(guess_shifted(frame, call), optimized_fit, call,
                   "quenched too often")
    ELSE [guess_shifted(frame, call) EXCEPT !.fit_quenched_counter = @ + 1]

\* the record of the retry loop that is running or ran last: its image, the
\* number of calls of opt.least_squares, how many of the latest calls failed
\* in a row, how many fits were found in the quenching zone, what the latest
\* call returned, the initial guess that call started from and, once the
\* loop is left, the branch that left it
attempt_recorded(frame, optimized_fit, call) ==
    [image |-> frame.i,
     fits |-> IF frame.last.image = frame.i THEN frame.last.fits + 1 ELSE 1,
     failed_in_a_row |->
         IF optimized_fit.success THEN 0
         ELSE IF frame.last.image = frame.i
         THEN frame.last.failed_in_a_row + 1 ELSE 1,
     quenched_fits |->
         (IF frame.last.image = frame.i THEN frame.last.quenched_fits ELSE 0)
         + (IF fit_loc_quenched(optimized_fit, call) THEN 1 ELSE 0),
     optimized_fit |-> optimized_fit,
     ini_x |-> frame.ini_x,
     ini_y |-> frame.ini_y,
     exit |-> "none"]

\* one pass of the retry loop: opt.least_squares is called and returns
\* optimized_fit
retry_pass(frame, optimized_fit, call) ==
    after_fit([frame EXCEPT
                  !.tries[frame.i] =
                      IF @ > call.max_fail_converge THEN @ ELSE @ + 1,
                  !.succeeded[frame.i] = @ \/ optimized_fit.success,
                  !.last = attempt_recorded(frame, optimized_fit, call)],
              optimized_fit, call)

\* what opt.least_squares can return: no success, or success with fit
\* parameters (x, y, angle) or (x, y, theta, phi)
FitPositions == {<<0, 0>>, <<3, -2>>}
FitAngles == {<<120>>}
FitDirections == {<<60, 200>>}
FitOutcomes(let_mol_ori_out_of_plane) ==
    {[success |-> FALSE, x |-> <<>>]}
    \cup {[success |-> TRUE, x |-> pos \o ang] :
              pos \in FitPositions,
              ang \in IF let_mol_ori_out_of_plane THEN FitDirections
                      ELSE FitAngles}

\* the arguments of a call and the fields of self it reads: every row of
\* ini_guess is the origin, the rod lies along x and the quenching ellipse
\* has the semi-axes 2 nm and 1 nm
fit_call(num_of_images, check_fit_loc, max_fail_converge, let_mol_ori_out_of_plane) ==
    [num_of_images |-> num_of_images,
     check_fit_loc |-> check_fit_loc,
     max_fail_converge |-> max_fail_converge,
     let_mol_ori_out_of_plane |-> let_mol_ori_out_of_plane,
     ini_guess |-> <<Zero, Zero>>,
     rod_angle |-> Angle(1, 0, 1),
     quench_radius_a_nm |-> Re(2),
     quench_radius_c_nm |-> One]

CallFitModelToImageData ==
    /\ op = "idle"
    /\ \E num_of_images \in 0..MaxImages, check_fit_loc \in BOOLEAN,
          max_fail_converge \in 1..MaxFail,
          let_mol_ori_out_of_plane \in BOOLEAN :
        /\ op' = "fit_model_to_image_data"
        /\ args' = fit_call(num_of_images, check_fit_loc, max_fail_converge,
                            let_mol_ori_out_of_plane)
        /\ ret' = fit_entered(args')

\* the function called with the image of one molecule
CallFitOneImage ==
    /\ op = "idle"
    /\ \E check_fit_loc \in BOOLEAN, max_fail_converge \in 1..MaxFail,
          let_mol_ori_out_of_plane \in BOOLEAN :
        /\ op' = "fit_model_to_image_data"
        /\ args' = fit_call(1, check_fit_loc, max_fail_converge,
                            let_mol_ori_out_of_plane)
        /\ ret' = fit_entered(args')

LeastSquares ==
    /\ op = "fit_model_to_image_data"
    /\ ret.status = "running"
    /\ \E optimized_fit \in FitOutcomes(args.let_mol_ori_out_of_plane) :
           ret' = retry_pass(ret, optimized_fit, args)
    /\ UNCHANGED <<op, args>>

ReturnFit ==
    /\ op = "fit_model_to_image_data"
    /\ ret.status = "ok"
    /\ op' = "idle" /\ args' = <<>> /\ ret' = <<>>

FitNext ==
    \/ CallFitModelToImageData
    \/ LeastSquares
    \/ ReturnFit

FitSpec == Init /\ [][FitNext]_vars

FitLoopNext ==
    \/ CallFitOneImage
    \/ LeastSquares
    \/ ReturnFit

\* the retry loop of one image; every pass of the loop calls
\* opt.least_squares, which returns
FitLoopSpec == Init /\ [][FitLoopNext]_vars /\ WF_vars(LeastSquares)

(***************************************************************************)
(* The test of the initial guess that fit_model_to_image_data makes with   *)
(* check_ini True, before the first fit of an image.  Lengths are exact    *)
(* fractions of a nanometre; the guesses lie on the axes, where the radius *)
(* of _polar_ellipse_semi_r is a fraction.                                 *)
(***************************************************************************)
\* the initial guess after the test: moved by _better_init_loc of itself
\* when it is in the quenching zone
checked_ini(rod_angle, ini_x, ini_y, quench_radius_a_nm, quench_radius_c_nm) ==
    IF mol_not_quenched(rod_angle, ini_x, ini_y, quench_radius_a_nm,
                        quench_radius_c_nm)
    THEN <<ini_x, ini_y>>
    ELSE <<CAdd(ini_x, better_init_loc(ini_x, ini_y, quench_radius_a_nm,
                                       quench_radius_c_nm)[1]),
           CAdd(ini_y, better_init_loc(ini_x, ini_y, quench_radius_a_nm,
                                       quench_radius_c_nm)[2])>>

RodAngles == {Angle(1, 0, 1), Angle(0, 1, 1), Angle(3, 4, 5)}
QuenchRadii == {<<Re(2), One>>, <<Re(2), Re(2)>>, <<Re(3), One>>, <<Re(3), Re(2)>>}
IniPositions ==
    {<<Zero, Zero>>, <<Frac(1, 2), Zero>>, <<One, Zero>>, <<Re(4), Zero>>,
     <<Re(-1), Zero>>, <<Zero, Frac(1, 2)>>, <<Zero, One>>, <<Zero, Re(-1)>>,
     <<Zero, Re(4)>>}

CallCheckIni ==
    /\ op = "idle"
    /\ \E rod_angle \in RodAngles, radii \in QuenchRadii,
          ini \in IniPositions :
        /\ op' = "check_ini"
        /\ args' = [rod_angle |-> rod_angle,
                    ini_x |-> ini[1],
                    ini_y |-> ini[2],
                    quench_radius_a_nm |-> radii[1],
                    quench_radius_c_nm |-> radii[2]]
        /\ ret' = [status |-> "ok",
                   params0 |-> checked_ini(rod_angle, ini[1], ini[2],
                                           radii[1], radii[2])]

GuessNext ==
    \/ CallCheckIni
    \/ Return

GuessSpec == Init /\ [][GuessNext]_vars

(***************************************************************************)
(* The constructors DipoleProperties.__init__ and FitModelToData.__init__. *)
(* An object is the function from the names of its attributes to their     *)
(* values; an attribute that was never assigned is not in its domain.  A   *)
(* Python value that can be None, a bool or a string is a record of its    *)
(* type and value.  Lengths are exact fractions.  Of the attributes, the   *)
(* model keeps those that decide which polarizability function is called   *)
(* and how the quench radii are set; a polarizability is kept as the call  *)
(* that computes it.  The parameter file has every required key and the    *)
(* key 'quench_radius'; FittingTools.__init__ and BeamSplitter.__init__    *)
(* assign none of the attributes kept here.                                *)
(***************************************************************************)
PyNone == [type |-> "NoneType", value |-> "None"]
PyStr(s) == [type |-> "str", value |-> s]
PyBool(b) == [type |-> "bool", value |-> b]
PyFloat(x) == [type |-> "float", value |-> x]

is_None(v) == v.type = "NoneType"
is_str(v, s) == v.type = "str" /\ v.value = s
truthy(v) ==
    IF v.type = "bool" THEN v.value
    ELSE IF v.type = "NoneType" THEN FALSE
    ELSE IF v.type = "str" THEN v.value # ""
    ELSE ~IsZero(v.value)

hasattr(self, name) == name \in DOMAIN self
setattr(self, name, value) ==
    [n \in DOMAIN self \cup {name} |-> IF n = name THEN value ELSE self[n]]

cm_per_nm == Frac(1, 10000000)

\* the attributes assigned from the parameter file
attributes_of_file(parameters, sphere_model) ==
    [a_long_meters |-> CMul(parameters.plasmon.fit_a1, cm_per_nm),
     a_short_meters |-> CMul(parameters.plasmon.fit_a2, cm_per_nm),
     true_a_un_me |->
         IF is_None(parameters.plasmon.true_a_unique)
            \/ is_str(parameters.plasmon.true_a_unique, "None")
         THEN parameters.plasmon.true_a_unique
         ELSE PyFloat(CMul(parameters.plasmon.true_a_unique.value, cm_per_nm)),
     is_sphere |->
         PyBool(is_None(parameters.plasmon.true_a_unique)
                \/ is_str(parameters.plasmon.true_a_unique, "None")),
     true_a_de_me |-> CMul(parameters.plasmon.true_a_degen, cm_per_nm),
     fluo_quench_range |-> parameters.plasmon.quench_radius,
     sphere_model |-> sphere_model]

\* try: self.quench_over_real_disk = parameters['plasmon'][...]
quench_flag_loaded(self, plasmon) ==
    IF "quench_over_real_disk" \in DOMAIN plasmon
    THEN setattr(self, "quench_over_real_disk", plasmon.quench_over_real_disk)
    ELSE self

\* the attributes assigned from the arguments
attributes_of_arguments(kwargs) ==
    [a_long_meters |-> kwargs.a_long_meters.value,
     a_short_meters |-> kwargs.a_short_meters.value,
     fluo_quench_range |-> kwargs.fluo_quench_region_nm,
     is_sphere |-> kwargs.is_sphere,
     sphere_model |-> kwargs.sphere_model]

\* a polarizability, as the call of coupled_dipoles that computes it
Called(function, radii) == [function |-> function, radii |-> radii]

SphereModels ==
    [MLWA |-> "sparse_ret_sphere_polarizability_Drude",
     TMatExp |-> "sparse_TMatExp_sphere_polarizability_Drude",
     Mie |-> "sparse_Mie_sphere_polarizability_Drude"]

\* self.alpha0_diag_dyad and self.alpha1_diag_dyad are assigned
polarizabilities_assigned(self) ==
    IF truthy(self.is_sphere)
    THEN IF self.sphere_model.type = "str"
            /\ self.sphere_model.value \in DOMAIN SphereModels
         THEN setattr(setattr(self, "alpha0_diag_dyad",
                              Called("sparse_polarizability_tensor", <<>>)),
                      "alpha1_diag_dyad",
                      Called(SphereModels[self.sphere_model.value],
                             <<self.a_long_meters>>))
         ELSE setattr(self, "alpha0_diag_dyad",
                      Called("sparse_polarizability_tensor", <<>>))
    ELSE setattr(setattr(self, "alpha0_diag_dyad",
                         Called("sparse_polarizability_tensor", <<>>)),
                 "alpha1_diag_dyad",
                 Called("sparse_ret_prolate_spheroid_polarizability_Drude",
                        <<self.a_long_meters, self.a_short_meters>>))

\* sparse_ret_prolate_spheroid_polarizability is called with equal semi-axes
\* and assigns no component
spheroid_unassigned(self) ==
    /\ ~truthy(self.is_sphere)
    /\ ~Greater(self.a_long_meters, self.a_short_meters)
    /\ ~Greater(self.a_short_meters, self.a_long_meters)

attributes_loaded(kwargs) ==
    IF ~is_None(kwargs.param_file)
    THEN quench_flag_loaded(
             attributes_of_file(kwargs.param_file.value, kwargs.sphere_model),
             kwargs.param_file.value.plasmon)
    ELSE attributes_of_arguments(kwargs)

\* DipoleProperties.__init__(self, **kwargs); of the arguments that must not
\* be None without a parameter file, the two radii can be missing
DipoleProperties_init(kwargs) ==
    IF is_None(kwargs.param_file)
       /\ (is_None(kwargs.a_long_meters) \/ is_None(kwargs.a_short_meters))
    THEN Raised(ValueError)
    ELSE IF spheroid_unassigned(attributes_loaded(kwargs))
    THEN Raised(UnboundLocalError)
    ELSE [status |-> "ok",
          self |-> polarizabilities_assigned(attributes_loaded(kwargs))]

\* PlottableDipoles.__init__ after DipoleProperties.__init__: the geometry of
\* the particle in the focal plane
geometry_defined(self) ==
    setattr(setattr(self, "el_c", CDiv(self.a_short_meters, cm_per_nm)),
            "el_a",
            IF Greater(self.a_long_meters, self.a_short_meters)
            THEN CDiv(self.a_long_meters, cm_per_nm)
            ELSE CDiv(self.a_short_meters, cm_per_nm))

\* the quenching radii of FitModelToData.__init__
quench_radii_defined(self) ==
    IF hasattr(self, "quench_over_real_disk")
    THEN IF truthy(self.quench_over_real_disk)
         THEN setattr(setattr(self, "quench_radius_a_nm",
                              CDiv(self.true_a_de_me, cm_per_nm)),
                      "quench_radius_c_nm",
                      CDiv(self.true_a_de_me, cm_per_nm))
         ELSE self
    ELSE setattr(setattr(self, "quench_radius_a_nm",
                         CAdd(self.el_a, self.fluo_quench_range)),
                 "quench_radius_c_nm",
                 CAdd(self.el_c, self.fluo_quench_range))

\* FitModelToData.__init__(self, image_data, plas_centroids, rod_angle,
\* **kwargs)
FitModelToData_init(rod_angle, kwargs) ==
    IF DipoleProperties_init(kwargs).status # "ok"
    THEN DipoleProperties_init(kwargs)
    ELSE [status |-> "ok",
          self |-> quench_radii_defined(geometry_defined(
                       setattr(DipoleProperties_init(kwargs).self,
                               "rod_angle",
                               IF rod_angle = None THEN Angle(0, 1, 1)
                               ELSE rod_angle)))]

\* the entries of parameters['plasmon'], with and without the optional key;
\* the name of a parameter file stands for the parameters loaded from it
ParticleRadii == {<<Re(40), Re(20)>>, <<Re(40), Re(40)>>, <<Re(20), Re(40)>>}
UniqueRadii == {PyNone, PyStr("None"), PyFloat(Re(40))}
PlasmonEntries ==
    {[fit_a1 |-> radii[1], fit_a2 |-> radii[2], true_a_unique |-> unique,
      true_a_degen |-> Re(30), quench_radius |-> Re(10)] :
         radii \in ParticleRadii, unique \in UniqueRadii}
    \cup {[fit_a1 |-> radii[1], fit_a2 |-> radii[2], true_a_unique |-> unique,
           true_a_degen |-> Re(30), quench_radius |-> Re(10),
           quench_over_real_disk |-> PyBool(flag)] :
              radii \in ParticleRadii, unique \in UniqueRadii,
              flag \in BOOLEAN}

ParamFiles ==
    {[param_file |-> PyStr([plasmon |-> plasmon]),
      a_long_meters |-> PyNone, a_short_meters |-> PyNone,
      fluo_quench_region_nm |-> Zero] : plasmon \in PlasmonEntries}

ExplicitArguments ==
    {[param_file |-> PyNone,
      a_long_meters |-> PyFloat(CMul(radii[1], cm_per_nm)),
      a_short_meters |-> PyFloat(CMul(radii[2], cm_per_nm)),
      fluo_quench_region_nm |-> Re(10)] : radii \in ParticleRadii}
    \cup {[param_file |-> PyNone, a_long_meters |-> PyNone,
           a_short_meters |-> PyNone, fluo_quench_region_nm |-> Zero]}

SphereFlags == {PyBool(TRUE), PyBool(FALSE), PyNone}
SphereModelNames ==
    {PyNone, PyStr("MLWA"), PyStr("TMatExp"), PyStr("Mie"), PyStr("Drude")}

CallDipoleProperties ==
    /\ op = "idle"
    /\ \E given \in ParamFiles \cup ExplicitArguments,
          is_sphere \in SphereFlags, sphere_model \in SphereModelNames :
        /\ op' = "DipoleProperties"
        /\ args' = given @@ [is_sphere |-> is_sphere,
                             sphere_model |-> sphere_model]
        /\ ret' = DipoleProperties_init(args')

CallFitModelToData ==
    /\ op = "idle"
    /\ \E given \in ParamFiles \cup ExplicitArguments,
          is_sphere \in SphereFlags, sphere_model \in SphereModelNames,
          rod_angle \in {None, Angle(1, 0, 1)} :
        /\ op' = "FitModelToData"
        /\ args' = given @@ [is_sphere |-> is_sphere,
                             sphere_model |-> sphere_model,
                             rod_angle |-> rod_angle]
        /\ ret' = FitModelToData_init(rod_angle, args')

ObjectNext ==
    \/ CallDipoleProperties
    \/ CallFitModelToData
    \/ Return

ObjectSpec == Init /\ [][ObjectNext]_vars

(***************************************************************************)
(* The two solvers that write into arrays, on a heap.  The caller's arrays *)
(* are buffers of a heap, named after the parameter they are passed as (a  *)
(* (3,3) tensor is a stack of one tensor); numbers and angles are passed   *)
(* by value.  A frame is the heap with the buffer every local name is      *)
(* bound to.  Only an assignment through an index and an augmented         *)
(* assignment write into a buffer; every other expression of the two       *)
(* functions builds a new array.  The function is called, and then called  *)
(* a second time with the same arrays as the first call has left them.     *)
(***************************************************************************)
\* the frame when the function is entered: every parameter is bound to the
\* caller's buffer
entered(heap) == [heap |-> heap, bound |-> [name \in DOMAIN heap |-> name]]

\* name = <expression building a new array> (name is not a parameter)
allocate(frame, name, value) ==
    [heap |-> (name :> value) @@ frame.heap,
     bound |-> (name :> name) @@ frame.bound]

\* name = other[None, :], a view: name is bound to the buffer of other
view(frame, name, other) ==
    [heap |-> frame.heap,
     bound |-> (name :> frame.bound[other]) @@ frame.bound]

\* name[...] = ..., name /= ...: the buffer name is bound to is written
update(frame, name, F(_)) ==
    [frame EXCEPT !.heap[frame.bound[name]] = F(@)]

\* the caller's buffers after the call
returned(frame, heap) == [id \in DOMAIN heap |-> frame.heap[id]]

\* alpha0_diag[..., 0, 0] = values
write_00(buffer, values) ==
    Stack(LAMBDA m : [buffer[m] EXCEPT ![1][1] = at(values, m)], Len(buffer))

\* mol_dipole_mag/drive_amp
moments_over_amp(mol_dipole_mag, drive_amp) ==
    Stack(LAMBDA m : CDiv(mol_dipole_mag.data[m], drive_amp),
          Len(mol_dipole_mag.data))

\* plas_dip_driven_by_mol with alpha0_diag a view of the caller's
\* alpha1_diag
plas_dip_frame_in_argument(frame, drive_amp) ==
    IF frame.heap.mol_dipole_mag.ndim # 1 THEN frame
    ELSE update(view(frame, "alpha0_diag", "alpha1_diag"), "alpha0_diag",
                LAMBDA buffer :
                    write_00(buffer,
                        moments_over_amp(frame.heap.mol_dipole_mag,
                                         drive_amp)))

\* the frame of plas_dip_driven_by_mol at its return statement
plas_dip_frame(frame, drive_amp) ==
    IF frame.heap.mol_dipole_mag.ndim # 1 THEN frame
    ELSE update(allocate(frame, "alpha0_diag",
                    Stack(LAMBDA m : ZeroMat,
                          Len(frame.heap.mol_dipole_mag.data))),
                "alpha0_diag",
                LAMBDA buffer :
                    write_00(buffer,
                        moments_over_amp(frame.heap.mol_dipole_mag,
                                         drive_amp)))

\* what plas_dip_driven_by_mol returns, from its frame
plas_dip_from(frame, call) ==
    IF frame.heap.mol_dipole_mag.ndim # 1 THEN Raised(TypeError)
    ELSE one_way_in_lab(frame.heap.mol_dipole_mag,
             Stack(LAMBDA m :
                       rotate_tensor(call.mol_angle,
                           frame.heap[frame.bound.alpha0_diag][m]),
                   Len(frame.heap[frame.bound.alpha0_diag])),
             rotate_tensor(call.plas_angle,
                           frame.heap[frame.bound.alpha1_diag][1]),
             G_or_zero(FALSE, call.drive_hbar_w,
                       frame.heap[frame.bound.d_col], call.n_b, exp_1j),
             drive_field(IF call.E_d_angle = None THEN call.mol_angle
                         ELSE call.E_d_angle, call.drive_amp))

\* E /= beam_power**0.5 for one field vector
normalised(E, root_beam_power) == VecScale(CRecip(Re(root_beam_power)), E)

\* the frame of coupled_dip_mags_focused_beam at its return statement;
\* call.beam_field is the table of aff.E_field and call.root_beam_power
\* the value of beam_power**0.5
focused_beam_frame(frame, call) ==
    update(
        update(
            allocate(
                allocate(
                    allocate(view(frame, "p0_position", "p0_position"),
                        "p1_position",
                        Stack(LAMBDA n :
                            Vec3(LAMBDA i : frame.heap.p0_position[i]
                                            - frame.heap.d_col[n][i]),
                            Len(frame.heap.d_col))),
                    "E_0",
                    E_field(call.beam_field,
                            frame.heap.beam_x_positions
                            - frame.heap.p0_position[1], call.drive_amp)),
                "E_1",
                Stack(LAMBDA n :
                    E_field(call.beam_field,
                            frame.heap.beam_x_positions
                            - (frame.heap.p0_position[1]
                               - frame.heap.d_col[n][1]),
                            call.drive_amp),
                    Len(frame.heap.d_col))),
            "E_0", LAMBDA E : normalised(E, call.root_beam_power)),
        "E_1",
        LAMBDA E : Stack(LAMBDA n : normalised(E[n], call.root_beam_power),
                         Len(E)))

\* what coupled_dip_mags_focused_beam returns, from its frame
focused_beam_from(frame, call) ==
    focused_beam_in_lab(
        rotate_tensor(call.mol_angle, frame.heap[frame.bound.alpha0_diag][1]),
        rotate_tensor(call.plas_angle, frame.heap[frame.bound.alpha1_diag][1]),
        G_or_zero(FALSE, call.drive_hbar_w, frame.heap[frame.bound.d_col],
                  call.n_b, exp_1j),
        frame.heap[frame.bound.E_0],
        frame.heap[frame.bound.E_1])

\* one call on the heap: what it returns and the caller's buffers after it
called(function, call, heap) ==
    IF function = "plas_dip_driven_by_mol"
    THEN [result |-> plas_dip_from(plas_dip_frame(entered(heap),
                                                  call.drive_amp), call),
          heap |-> returned(plas_dip_frame(entered(heap), call.drive_amp),
                            heap)]
    ELSE [result |-> focused_beam_from(focused_beam_frame(entered(heap),
                                                          call), call),
          heap |-> returned(focused_beam_frame(entered(heap), call), heap)]

CallPlasDipOnHeap ==
    /\ op = "idle"
    /\ \E mol_angle \in Angles, plas_angle \in PlasAngles,
          d_col \in SeparationBatches, mol_dipole_mag \in DipoleMags,
          E_d_angle \in DriveAngles, drive_hbar_w \in 0..MaxK,
          alpha1_diag \in SpheroidTensors :
        /\ mol_angle \in PlasAngles \/ drive_hbar_w = 0
        /\ op' = "plas_dip_driven_by_mol"
        /\ args' = [call |-> [mol_angle |-> mol_angle,
                              plas_angle |-> plas_angle,
                              E_d_angle |-> E_d_angle,
                              drive_hbar_w |-> drive_hbar_w,
                              n_b |-> 1, drive_amp |-> One],
                    heap |-> [d_col |-> d_col,
                              mol_dipole_mag |-> mol_dipole_mag,
                              alpha1_diag |-> <<alpha1_diag>>]]
        /\ ret' = [calls |-> 1] @@ called(op', args'.call, args'.heap)

\* E_d_angle is given (the beam field is the table's for that angle)
CallFocusedBeamOnHeap ==
    /\ op = "idle"
    /\ \E mol_angle \in Angles, plas_angle \in PlasAngles,
          d_col \in SeparationBatches, beam_x_positions \in 0..1,
          drive_hbar_w \in 0..MaxK, alpha0_diag \in FluorophoreTensors,
          alpha1_diag \in SpheroidTensors, beam_field \in BeamFields,
          root_beam_power \in 1..2 :
        /\ mol_angle \in PlasAngles \/ drive_hbar_w = 0
        /\ op' = "coupled_dip_mags_focused_beam"
        /\ args' = [call |-> [mol_angle |-> mol_angle,
                              plas_angle |-> plas_angle,
                              drive_hbar_w |-> drive_hbar_w,
                              n_b |-> 1, drive_amp |-> One,
                              beam_field |-> beam_field,
                              root_beam_power |-> root_beam_power],
                    heap |-> [d_col |-> d_col,
                              p0_position |-> <<0, 0, 0>>,
                              beam_x_positions |-> beam_x_positions,
                              alpha0_diag |-> <<alpha0_diag>>,
                              alpha1_diag |-> <<alpha1_diag>>]]
        /\ ret' = [calls |-> 1] @@ called(op', args'.call, args'.heap)

\* the same call a second time, with the caller's arrays as they are now
CallAgain ==
    /\ op \in {"plas_dip_driven_by_mol", "coupled_dip_mags_focused_beam"}
    /\ ret.calls = 1
    /\ ret' = [calls |-> 2, first |-> ret.result]
              @@ called(op, args.call, ret.heap)
    /\ UNCHANGED <<op, args>>

ReturnToCaller ==
    /\ op \in {"plas_dip_driven_by_mol", "coupled_dip_mags_focused_beam"}
    /\ ret.calls = 2
    /\ op' = "idle" /\ args' = <<>> /\ ret' = <<>>

FrameNext ==
    \/ CallPlasDipOnHeap
    \/ CallFocusedBeamOnHeap
    \/ CallAgain
    \/ ReturnToCaller

FrameSpec == Init /\ [][FrameNext]_vars

(***************************************************************************)
(* Properties of the solvers.                                              *)
(***************************************************************************)
Samples == 1..Len(ret.p1)

\* the lab-frame tensors, the drive field and the coupling tensors of the
\* call in the state, from its arguments
LabAlpha0 ==
    IF op = "dipole_mags_gened"
    THEN rotate_molecule(args.mol_angle, args.alpha0_diag, args.E_d_angle,
                         args.drive_amp).alpha_0
    ELSE rotate_tensor(args.mol_angle, args.alpha0_diag)
LabAlpha1 == rotate_tensor(args.plas_angle, args.alpha1_diag)
PlaneWave ==
    LET E_d_angle == IF args.E_d_angle = None THEN args.mol_angle
                     ELSE args.E_d_angle
    IN  VecScale(args.drive_amp, MatVec(rotation_by(E_d_angle), <<One, Zero, Zero>>))
Coupling ==
    G_or_zero(args.G_forced_zero, args.drive_hbar_w, args.d_col, args.n_b,
              exp_1j)
\* alpha_0 @ G and alpha_1 @ G commute at sample n
Commute(n) ==
    MatMul(MatMul(LabAlpha0, Coupling[n]), MatMul(LabAlpha1, Coupling[n]))
    = MatMul(MatMul(LabAlpha1, Coupling[n]), MatMul(LabAlpha0, Coupling[n]))
\* p = alpha (E + G q)
Driven(p, alpha, E, G_n, q) == p = MatVec(alpha, VecAdd(E, MatVec(G_n, q)))

\* C1: whenever coupled_dip_mags_both_driven returns (I - alpha0 G alpha1 G
\* is invertible at every sample), the moments it returns satisfy
\* p0 = alpha0 (E + G p1) and p1 = alpha1 (E + G p0) at every sample,
\* also when alpha0 G and alpha1 G do not commute.
C1_SelfConsistent ==
    (op = "coupled_dip_mags_both_driven" /\ ret.status = "ok") =>
        \A n \in Samples :
            /\ Driven(ret.p0[n], LabAlpha0, PlaneWave, Coupling[n], ret.p1[n])
            /\ Driven(ret.p1[n], LabAlpha1, PlaneWave, Coupling[n], ret.p0[n])

\* C2: with the Green tensor forced to zero coupled_dip_mags_both_driven
\* returns exactly p0 = alpha0 E and p1 = alpha1 E, and p0 is the moment
\* single_dip_mag_pw and uncoupled_p0 give for the same angle, tensor and
\* drive.
C2_UncoupledLimit ==
    (op = "coupled_dip_mags_both_driven" /\ args.G_forced_zero) =>
        /\ ret.status = "ok"
        /\ \A n \in Samples :
            /\ ret.p0[n] = MatVec(LabAlpha0, PlaneWave)
            /\ ret.p1[n] = MatVec(LabAlpha1, PlaneWave)
            /\ ret.p0[n] = single_dip_mag_pw(args.mol_angle, args.E_d_angle,
                               args.alpha0_diag, args.drive_amp).p0
            /\ ret.p0[n] = uncoupled_p0(args.mol_angle, args.E_d_angle,
                               args.alpha0_diag, args.drive_amp).p0_unc

\* a both-driven call with G forced to zero, a rotated emitter and a drive
\* field that is not along the emitter
C2_Witness ==
    /\ op = "coupled_dip_mags_both_driven"
    /\ args.G_forced_zero
    /\ args.mol_angle = Angle(3, 4, 5)
    /\ args.E_d_angle = Angle(0, 1, 1)
    /\ ret.status = "ok"
    /\ ret.p0[1] # ZeroVec

\* C3: in coupled_dip_mags_focused_beam each dipole is driven by the field
\* sample at its own location: p0 = alpha0 (E_0 + G p1) and
\* p1 = alpha1 (E_1 + G p0).  (Stated at the samples where alpha0 G and
\* alpha1 G commute, where the closed form of the plane-wave solver is
\* self-consistent.)
C3_DrivenByOwnSample ==
    (op = "coupled_dip_mags_focused_beam" /\ ret.status = "ok") =>
        \A n \in Samples :
            Commute(n) =>
                /\ Driven(ret.p0[n], LabAlpha0, ret.E_0, Coupling[n], ret.p1[n])
                /\ Driven(ret.p1[n], LabAlpha1, ret.E_1[n], Coupling[n], ret.p0[n])

\* C4: for every input it accepts (a one-dimensional mol_dipole_mag whose
\* length matches the separations) plas_dip_driven_by_mol returns
\* p0 = alpha0 E and p1 = alpha1 G p0.
ValidOneWayInput ==
    /\ args.mol_dipole_mag.ndim = 1
    /\ \/ Len(args.mol_dipole_mag.data) = Len(args.d_col)
       \/ Len(args.mol_dipole_mag.data) = 1
       \/ Len(args.d_col) = 1
OneWayAlpha0(m) ==
    rotate_tensor(args.mol_angle,
        Diag(CDiv(args.mol_dipole_mag.data[m], args.drive_amp), Zero, Zero))
Sample(stack, n) == IF Len(stack) = 1 THEN stack[1] ELSE stack[n]

C4_OneWay ==
    (op = "plas_dip_driven_by_mol" /\ ValidOneWayInput) =>
        /\ ret.status = "ok"
        /\ \A m \in 1..Len(ret.p0) :
               ret.p0[m] = MatVec(OneWayAlpha0(m), PlaneWave)
        /\ \A n \in Samples :
               ret.p1[n] = MatVec(MatMul(LabAlpha1, Sample(Coupling, n)),
                                  Sample(ret.p0, n))

\* C5: when I - alpha0 G alpha1 G is singular at some sample, the coupled
\* solvers raise LinAlgError and return nothing else: no moments and no
\* substitute value.
CoupledSolvers == {"coupled_dip_mags_both_driven", "dipole_mags_gened",
                   "coupled_dip_mags_focused_beam"}
SingularSample(n) ==
    IsZero(Det3(MatSub(Identity3,
        MatMul(MatMul(MatMul(LabAlpha0, Coupling[n]), LabAlpha1), Coupling[n]))))

EmitterDrive ==
    rotate_molecule(args.mol_angle, args.alpha0_diag, args.E_d_angle,
                    args.drive_amp).E_drive

\* C20: whenever dipole_mags_gened returns (I - alpha0 G alpha1 G is
\* invertible at every sample), its moments satisfy p0 = alpha0 (E + G p1)
\* and p1 = alpha1 G p0 at every sample; with the Green tensor forced to
\* zero it returns p0 = alpha0 E, the moment uncoupled_p0 gives, and p1 = 0.
C20_EmitterDriven ==
    (op = "dipole_mags_gened" /\ ret.status = "ok") =>
        /\ \A n \in Samples :
            /\ Driven(ret.p0[n], LabAlpha0, EmitterDrive, Coupling[n],
                      ret.p1[n])
            /\ ret.p1[n] = MatVec(LabAlpha1, MatVec(Coupling[n], ret.p0[n]))
        /\ args.G_forced_zero =>
               \A n \in Samples :
                   /\ ret.p0[n] = MatVec(LabAlpha0, EmitterDrive)
                   /\ ret.p0[n] = uncoupled_p0(args.mol_angle,
                                      args.E_d_angle, args.alpha0_diag,
                                      args.drive_amp).p0_unc
                   /\ ret.p1[n] = ZeroVec

\* a call with a rotated emitter, a drive field not along it and a coupling
\* that changes the emitter's moment and gives the particle one
C20_Witness ==
    /\ op = "dipole_mags_gened"
    /\ ~args.G_forced_zero
    /\ args.mol_angle = Angle(3, 4, 5)
    /\ args.E_d_angle = Angle(0, 1, 1)
    /\ ret.status = "ok"
    /\ ret.p1[1] # ZeroVec
    /\ ret.p0[1] # MatVec(LabAlpha0, EmitterDrive)

\* C25: for a tensor with only an xx entry, a molecule at angle phi and
\* the drive along the molecule (E_d_angle None), uncoupled_p0 returns
\* p0 = alpha_xx drive_amp (cos phi, sin phi, 0), for every phi.
C25_OneConvention ==
    (op = "uncoupled_p0" /\ args.E_d_angle = None) =>
        /\ ret.status = "ok"
        /\ ret.p0_unc = VecScale(CMul(args.alpha_0_p0[1][1], args.drive_amp),
                                 <<cos(args.mol_angle), sin(args.mol_angle),
                                   Zero>>)

\* I - alpha0 G alpha1 G of plas_dip_driven_by_mol is singular at a sample
OneWaySingular ==
    \E n \in 1..Max(Len(args.d_col), Len(args.mol_dipole_mag.data)) :
        IsZero(Det3(MatSub(Identity3,
            MatMul(MatMul(MatMul(
                OneWayAlpha0(IF Len(args.mol_dipole_mag.data) = 1 THEN 1
                             ELSE n),
                Sample(Coupling, n)), LabAlpha1), Sample(Coupling, n)))))

\* C30: plas_dip_driven_by_mol, given a one-dimensional mol_dipole_mag and
\* inputs for which I - alpha0 G alpha1 G is singular at some sample, does
\* not raise and returns p0 = alpha0 E and p1 = alpha1 G p0.
C30_NoInverseNeeded ==
    (/\ op = "plas_dip_driven_by_mol"
     /\ ValidOneWayInput
     /\ OneWaySingular) =>
        /\ ret.status = "ok"
        /\ \A m \in 1..Len(ret.p0) :
               ret.p0[m] = MatVec(OneWayAlpha0(m), PlaneWave)
        /\ \A n \in Samples :
               ret.p1[n] = MatVec(MatMul(LabAlpha1, Sample(Coupling, n)),
                                  Sample(ret.p0, n))

(***************************************************************************)
(* Properties of the polarizabilities and of the coupling tensor.          *)
(***************************************************************************)
AllFinite(stack) == \A n \in 1..Len(stack) : MatFinite(stack[n])

\* C6: G (zero separation among its inputs) and the Mie sphere (zero
\* wavenumber among its inputs) return finite values only, never a NaN or
\* an infinity.
C6_NoIndeterminate ==
    /\ (op = "G" /\ ret.status = "ok") => AllFinite(ret.g_dip_dip)
    /\ (op = "sparse_sphere_polarizability_Mie" /\ ret.status = "ok")
           => AllFinite(ret.alpha_ij)

\* the shape of the particle of a polarizability call, and the diagonal
\* components an isolate_mode keeps for it
ParticleShape ==
    IF op # "sparse_ret_prolate_spheroid_polarizability" THEN "sphere"
    ELSE IF Greater(args.a_x, args.a_yz) THEN "prolate"
    ELSE IF Greater(args.a_yz, args.a_x) THEN "oblate"
    ELSE "equal"
Kept(isolate_mode) ==
    IF isolate_mode = ModeNone THEN {1, 2, 3}
    ELSE IF isolate_mode = "long"
    THEN (IF ParticleShape = "oblate" THEN {1, 2} ELSE {1})
    ELSE (IF ParticleShape = "oblate" THEN {3} ELSE {2, 3})
Select(full, kept) ==
    Mat3(LAMBDA i, j : IF i = j /\ i \in kept THEN full[i][j] ELSE Zero)
Support(A) == {ij \in Idx \X Idx : ~IsZero(A[ij[1]][ij[2]])}
\* the tensors the call of the state returns under another isolate_mode
Tensors(isolate_mode) ==
    IF op = "sparse_ret_prolate_spheroid_polarizability"
    THEN <<sparse_ret_prolate_spheroid_polarizability(args.eps, args.eps_b,
               args.a_x, args.a_yz, args.w, isolate_mode).alpha_ij>>
    ELSE IF op = "sparse_ret_sphere_polarizability"
    THEN sparse_ret_sphere_polarizability(args.eps, args.eps_b, args.a,
             args.w, isolate_mode).alpha_ij
    ELSE distribute_sphere_alpha_components_into_tensor(args.alpha_11,
             args.alpha_22, args.alpha_33, isolate_mode).alpha_ij
Returned ==
    IF op = "sparse_ret_prolate_spheroid_polarizability"
    THEN <<ret.alpha_ij>> ELSE ret.alpha_ij
AxisSelecting == {"sparse_ret_prolate_spheroid_polarizability",
                  "sparse_ret_sphere_polarizability",
                  "distribute_sphere_alpha_components_into_tensor"}

G_pair(d_vec, k) ==
    Mat3(LAMBDA i, j :
             G_element(d_vec, vec_mag(<<d_vec>>)[1], k, i, j, exp_1j))

\* C8: G returns shape (N,3,3) for N separations and one wavenumber, shape
\* (Nk,3,3) for one separation and Nk wavenumbers, and for N separations
\* paired with N wavenumbers shape (N,3,3) whose n-th tensor is computed
\* from the pair (d_n, k_n).
C8_Batching ==
    op = "G" =>
        LET N == Len(args.d_col)
            Nk == Len(args.drive_hbar_w.data)
            k(m) == args.drive_hbar_w.data[m] * args.n_b
        IN  /\ Nk = 1 =>
                /\ ret.status = "ok"
                /\ ret.shape = <<N, 3, 3>>
                /\ \A n \in 1..N :
                       ret.g_dip_dip[n] = G_pair(args.d_col[n], k(1))
            /\ (N = 1 /\ Nk > 1) =>
                /\ ret.status = "ok"
                /\ ret.shape = <<Nk, 3, 3>>
                /\ \A m \in 1..Nk :
                       ret.g_dip_dip[m] = G_pair(args.d_col[1], k(m))
            /\ (N > 1 /\ Nk = N) =>
                /\ ret.status = "ok"
                /\ ret.shape = <<N, 3, 3>>
                /\ \A n \in 1..N :
                       ret.g_dip_dip[n] = G_pair(args.d_col[n], k(n))

\* the tensor-assembly calls, and the per-axis inputs of sample n
Assembling == {"distribute_sphere_alpha_components_into_tensor",
               "sparse_polarizability_tensor"}
SweptInput == IF op = "sparse_polarizability_tensor" THEN args.w
              ELSE args.alpha_11
AssembledFrom(n) ==
    IF op = "sparse_polarizability_tensor"
    THEN Diag(alpha_0_xx(args.mass, args.w_res, args.w.data[n],
                         args.gamma_nr, args.a, args.eps_inf, args.eps_b),
              Zero, Zero)
    ELSE Select(Diag(args.alpha_11.data[n], args.alpha_22.data[n],
                     args.alpha_33.data[n]),
                Kept(args.isolate_mode))

\* C12: the tensor-assembly step (and the fluorophore tensor) returns
\* shape (N,3,3) for per-axis inputs that are arrays of N >= 1 frequency
\* samples, N = 1 included, sample n built from the n-th inputs, and shape
\* (3,3) for scalar inputs.
C12_BatchDimension ==
    (/\ op \in Assembling
     /\ op # "sparse_polarizability_tensor" =>
            args.isolate_mode \in {ModeNone, "long", "short", "trans"}) =>
        /\ ret.status = "ok"
        /\ ret.shape = IF SweptInput.array
                       THEN <<Len(SweptInput.data), 3, 3>> ELSE <<3, 3>>
        /\ Len(ret.alpha_ij) = Len(SweptInput.data)
        /\ \A n \in 1..Len(ret.alpha_ij) : ret.alpha_ij[n] = AssembledFrom(n)

\* the wavenumber of sample n of a polarizability call
SampleK(n) == CMul(Re(args.w.data[n]), SqrtFrac(args.eps_b))
\* the isotropic tensor of a sphere whose quasistatic polarizability is
\* alphaR, at sample n
RetardedSphere(alphaR, n) ==
    LET alpha == retarded(alphaR, SampleK(n), Re(args.a), One)
    IN  Diag(alpha, alpha, alpha)
FullSphereCall ==
    /\ op = "sparse_ret_sphere_polarizability"
    /\ args.isolate_mode = ModeNone

\* C13: the quasistatic polarizability of the MLWA sphere is
\* a**3 (eps - eps_b)/(eps_b + (eps - eps_b)/3): the tensor returned is the
\* retardation correction of that value.
C13_QuasistaticAsStated ==
    FullSphereCall =>
        \A n \in 1..Len(ret.alpha_ij) :
            ret.alpha_ij[n] =
                RetardedSphere(
                    CDiv(CMul(Re(args.a * args.a * args.a),
                              CSub(args.eps, args.eps_b)),
                         CAdd(args.eps_b,
                              CMul(Frac(1, 3), CSub(args.eps, args.eps_b)))),
                    n)

\* C13 (amended): the quasistatic polarizability of the MLWA sphere is
\* (a**3/3) (eps - eps_b)/(eps_b + (eps - eps_b)/3), which is the
\* Clausius-Mossotti value a**3 (eps - eps_b)/(eps + 2 eps_b): the tensor
\* returned is the retardation correction of that value.
C13_ClausiusMossotti ==
    FullSphereCall =>
        \A n \in 1..Len(ret.alpha_ij) :
            ret.alpha_ij[n] =
                RetardedSphere(
                    CDiv(CMul(Re(args.a * args.a * args.a),
                              CSub(args.eps, args.eps_b)),
                         CAdd(args.eps, CMul(Re(2), args.eps_b))),
                    n)

\* a sphere of radius 2 at a frequency sweep that holds w = 0, where the
\* returned component is the quasistatic value itself, and w = 1
C13_Witness ==
    /\ FullSphereCall
    /\ args.a = 2
    /\ args.eps = Cx(-2, 1)
    /\ \E n \in 1..Len(args.w.data) :
           /\ args.w.data[n] = 0
           /\ ret.alpha_ij[n][1][1] = CDiv(CMul(Re(8), Cx(-3, 1)), Cx(0, 1))
           /\ \E m \in 1..Len(args.w.data) :
                  /\ args.w.data[m] = 1
                  /\ ret.alpha_ij[m][1][1] # ret.alpha_ij[n][1][1]

PolarizabilityModels == {"sparse_ret_prolate_spheroid_polarizability",
                         "sparse_ret_sphere_polarizability",
                         "sparse_sphere_polarizability_TMatExp",
                         "sparse_sphere_polarizability_Mie"}
\* sample n of the call is at wavenumber zero
ZeroWavenumber(n) ==
    IF op = "sparse_ret_prolate_spheroid_polarizability" THEN args.w = 0
    ELSE args.w.data[n] = 0
\* the quasistatic tensor of the particle of the call: the depolarization
\* factor form for the spheroid, Clausius-Mossotti for the spheres
QuasistaticTensor ==
    IF op = "sparse_ret_prolate_spheroid_polarizability"
    THEN LET prolate == Greater(args.a_x, args.a_yz)
             e == ecc(args.a_x, args.a_yz)
             alpha_x == alphaR_ii(L_i(1, prolate, e), args.eps, args.eps_b,
                                  args.a_x, args.a_yz)
             alpha_yz == alphaR_ii(L_i(2, prolate, e), args.eps, args.eps_b,
                                   args.a_x, args.a_yz)
         IN  IF prolate THEN Diag(alpha_x, alpha_yz, alpha_yz)
             ELSE Diag(alpha_yz, alpha_yz, alpha_x)
    ELSE LET alpha == CDiv(CMul(Re(args.a * args.a * args.a),
                                CSub(args.eps, args.eps_b)),
                           CAdd(args.eps, CMul(Re(2), args.eps_b)))
         IN  Diag(alpha, alpha, alpha)

\* C14: at wavenumber k = 0 every polarizability model (MLWA spheroid, MLWA
\* sphere, T-matrix-expansion sphere, Mie sphere) returns its quasistatic
\* (Clausius-Mossotti) polarizability in each diagonal entry.
C14_QuasistaticLimit ==
    (/\ op \in PolarizabilityModels
     /\ args.isolate_mode = ModeNone
     /\ ParticleShape # "equal") =>
        /\ ret.status = "ok"
        /\ \A n \in 1..Len(Returned) :
               ZeroWavenumber(n) => Returned[n] = QuasistaticTensor

\* C27: for positive semi-axes, whether a_x > a_yz, a_x < a_yz or
\* a_x = a_yz, and every isolate_mode,
\* sparse_ret_prolate_spheroid_polarizability returns a diagonal tensor.
C27_EveryCaseAssigned ==
    (/\ op = "sparse_ret_prolate_spheroid_polarizability"
     /\ args.a_x.re > 0 /\ args.a_yz.re > 0
     /\ args.isolate_mode \in {ModeNone, "long", "short", "trans"}) =>
        /\ ret.status = "ok"
        /\ \A i, j \in Idx : i # j => ret.alpha_ij[i][j] = Zero

\* the call has a radius or a semi-axis that is not positive
InvalidGeometry ==
    \/ op = "sparse_ret_sphere_polarizability" /\ args.a <= 0
    \/ /\ op = "sparse_ret_prolate_spheroid_polarizability"
       /\ (args.a_x.re <= 0 \/ args.a_yz.re <= 0)

\* C15: a polarizability model called with a non-positive radius or
\* semi-axis raises a domain error and returns no tensor.
C15_DomainError == InvalidGeometry => ret = Raised("DomainError")

\* the list sigma_abs_coupled returns: sigma, then one array holding the
\* four terms (the model keeps the four terms of a separation together)
returned_list == <<ret.sigma, ret.terms>>
\* list[from:to] of a list indexed from zero
Slice(list, from, to) ==
    SubSeq(list, from + 1, IF to < Len(list) THEN to ELSE Len(list))
\* term number i of the four, at every separation
TermAt(i) == [n \in 1..Len(ret.terms) |-> ret.terms[n][i]]

\* C18: sigma_abs_coupled returns a list of five entries: entry 0 is the
\* coupled absorption cross section, entries 1:3 are the interference and
\* diagonal terms of the first dipole and entries 3:5 those of the second.
C18_FiveEntries ==
    (op = "sigma_abs_coupled" /\ ret.status = "ok") =>
        /\ Len(returned_list) = 5
        /\ returned_list[1] = ret.sigma
        /\ Slice(returned_list, 1, 3) = <<TermAt(1), TermAt(2)>>
        /\ Slice(returned_list, 3, 5) = <<TermAt(3), TermAt(4)>>

\* the magnitude of a vector of integers
Magnitude(v) == Sqrt(v[1] * v[1] + v[2] * v[2] + v[3] * v[3])

\* C19: for an array of shape (...,3) vec_mag returns the magnitudes of its
\* vectors with shape (...,1): the leading dimensions in their order, then
\* one axis of length 1.
C19_KeepsLeadingAxes ==
    op = "vec_mag" =>
        /\ ret.status = "ok"
        /\ ret.shape = SubSeq(args.row_vecs.shape, 1,
                              Len(args.row_vecs.shape) - 1) \o <<1>>
        /\ Len(ret.data) = Len(args.row_vecs.vecs)
        /\ \A n \in 1..Len(ret.data) :
               ret.data[n] = Magnitude(args.row_vecs.vecs[n])

(***************************************************************************)
(* Properties of fit_model_to_image_data.                                  *)
(***************************************************************************)
FitReturned == op = "fit_model_to_image_data" /\ ret.status = "ok"
NoNaN(row) == \A j \in 1..Len(row) : IsFinite(row[j])
AllNaN(row) == \A j \in 1..Len(row) : ~IsFinite(row[j])

\* C17: fit_model_to_image_data (max_fail_converge at least 1) returns one
\* row per image, of 3 columns for an in-plane molecule and 4 with
\* let_mol_ori_out_of_plane; with check_fit_loc False every image is fitted
\* at least once and at most max_fail_converge times, its row has no NaN
\* exactly when one of these fits reported success, and is NaN in every
\* column otherwise.
C17_RowPerImage ==
    FitReturned =>
        /\ Len(ret.model_fit_results) = args.num_of_images
        /\ \A i \in 1..args.num_of_images :
            /\ Len(ret.model_fit_results[i])
                   = IF args.let_mol_ori_out_of_plane THEN 4 ELSE 3
            /\ ~args.check_fit_loc =>
                /\ ret.tries[i] \in 1..args.max_fail_converge
                /\ NoNaN(ret.model_fit_results[i]) <=> ret.succeeded[i]
                /\ ~ret.succeeded[i] => AllNaN(ret.model_fit_results[i])

\* two images fitted without the location check: every fit of the first
\* failed, the second succeeded at its last permitted attempt
C17_Witness ==
    /\ FitReturned
    /\ ~args.check_fit_loc
    /\ args.num_of_images = 2
    /\ args.max_fail_converge = 2
    /\ ret.tries = <<2, 2>>
    /\ ret.succeeded = <<FALSE, TRUE>>
    /\ AllNaN(ret.model_fit_results[1])
    /\ NoNaN(ret.model_fit_results[2])

Fitting == op = "fit_model_to_image_data"
InRetryLoop(k) == Fitting /\ ret.status = "running" /\ ret.i = k
LoopLeft == Fitting /\ ret.last.exit # "none"
LastRow == ret.model_fit_results[ret.last.image]

\* C21: the retry loop of every image terminates whatever opt.least_squares
\* returns, after at most max_fail_converge calls of opt.least_squares with
\* check_fit_loc False and at most max_fail_converge + 99 calls with
\* check_fit_loc True.
C21_LoopTerminates ==
    /\ [](Fitting =>
            ret.last.fits <= IF args.check_fit_loc
                             THEN args.max_fail_converge + QuenchLimit - 1
                             ELSE args.max_fail_converge)
    /\ \A k \in 1..MaxImages :
           InRetryLoop(k) ~> (Fitting /\ ret.i = k + 1)

\* the longest loop: one fit that did not converge, 99 fits in the quenching
\* zone and a last fit that did not converge
C21_Witness ==
    /\ LoopLeft
    /\ args.check_fit_loc
    /\ args.max_fail_converge = 2
    /\ ret.last.fits = args.max_fail_converge + QuenchLimit - 1
    /\ ret.last.quenched_fits = QuenchLimit - 1
    /\ ret.last.exit = "giving up"

\* C22: when the retry loop is left through the giving-up branch, the last
\* max_fail_converge calls of opt.least_squares for that image all failed,
\* with no successful call between them.
C22_FailuresInARow ==
    (LoopLeft /\ ret.last.exit = "giving up") =>
        ret.last.failed_in_a_row >= args.max_fail_converge

C24_GuessLeavesQuenchingZone ==
    (/\ op = "check_ini"
     /\ ~mol_not_quenched(args.rod_angle, args.ini_x, args.ini_y,
                          args.quench_radius_a_nm, args.quench_radius_c_nm)) =>
        mol_not_quenched(args.rod_angle, ret.params0[1], ret.params0[2],
                         args.quench_radius_a_nm, args.quench_radius_c_nm)

(***************************************************************************)
(* Properties of the constructors.                                         *)
(***************************************************************************)
Constructed(class) == op = class /\ ret.status = "ok"

\* C28: after DipoleProperties.__init__ returns, alpha0_diag_dyad and
\* alpha1_diag_dyad are both defined, for every is_sphere and sphere_model,
\* with a parameter file and with explicit arguments, and the polarizability
\* of a sphere is computed by one of the three sphere models.
C28_PolarizabilitiesDefined ==
    Constructed("DipoleProperties") =>
        /\ hasattr(ret.self, "alpha0_diag_dyad")
        /\ hasattr(ret.self, "alpha1_diag_dyad")
        /\ truthy(ret.self.is_sphere) =>
               \E model \in DOMAIN SphereModels :
                   ret.self.alpha1_diag_dyad.function = SphereModels[model]

\* C29: after FitModelToData.__init__ returns, quench_radius_a_nm and
\* quench_radius_c_nm are both defined, whether quench_over_real_disk is
\* True, False or absent from the parameter file.
C29_QuenchRadiiDefined ==
    Constructed("FitModelToData") =>
        /\ hasattr(ret.self, "quench_radius_a_nm")
        /\ hasattr(ret.self, "quench_radius_c_nm")

(***************************************************************************)
(* Properties of the calls on the heap.                                    *)
(***************************************************************************)
\* C16: a call of plas_dip_driven_by_mol or coupled_dip_mags_focused_beam
\* (the core operations that write into an array other than the one they
\* build and return) leaves every array passed to it as it was, and a
\* second call with the same arguments returns what the first call
\* returned.
C16_PureCalls ==
    op \in {"plas_dip_driven_by_mol", "coupled_dip_mags_focused_beam"} =>
        /\ \A id \in DOMAIN args.heap : ret.heap[id] = args.heap[id]
        /\ ret.calls = 2 => ret.result = ret.first

\* plas_dip_driven_by_mol called twice with two dipole magnitudes, which
\* it has written into its alpha0_diag, and a moment returned
C16_Witness ==
    /\ op = "plas_dip_driven_by_mol"
    /\ ret.calls = 2
    /\ ret.result.status = "ok"
    /\ Len(args.heap.mol_dipole_mag.data) = 2
    /\ ret.result.alpha_0[2] # ZeroMat
    /\ ret.result.p1[1] # ZeroVec

(***************************************************************************)
(* Properties of rotation_by.                                              *)
(***************************************************************************)
\* tensors in a principal frame, and a dense one
RoundTripTensors ==
    FluorophoreTensors \cup SpheroidTensors
        \cup { << <<One, Cx(0, 2), Zero>>, <<Re(3), Cx(1, 1), One>>,
                 <<Zero, Re(2), Cx(2, 1)>> >> }
\* R(-phi) alpha R(phi) about rot_axis
InLabFrame(phi, alpha, rot_axis) ==
    MatMul(MatMul(rotation_by_axis(NegAngle(phi), rot_axis), alpha),
           rotation_by_axis(phi, rot_axis))

\* C11: for each rotation axis x, y and z and every angle phi,
\* rotation_by(phi) rotation_by(-phi) is the identity, and a tensor
\* expressed in the lab frame with angle phi and then with angle -phi is
\* the original tensor.
C11_RotationRoundTrip ==
    (op = "rotation_by" /\ args.rot_axis \in {"x", "y", "z"}) =>
        /\ MatMul(ret.R, rotation_by_axis(NegAngle(args.by_angle),
                                          args.rot_axis)) = Identity3
        /\ \A alpha \in RoundTripTensors :
               InLabFrame(NegAngle(args.by_angle),
                          InLabFrame(args.by_angle, alpha, args.rot_axis),
                          args.rot_axis) = alpha

\* a rotation about y by an oblique angle, which mixes x and z
C11_Witness ==
    /\ op = "rotation_by"
    /\ args.rot_axis = "y"
    /\ args.by_angle = Angle(3, 4, 5)
    /\ ret.R[1][3] = Frac(4, 5)
    /\ ret.R[3][1] = Frac(-4, 5)

(***************************************************************************)
(* Properties of the cross sections.                                       *)
(***************************************************************************)
\* C9: with the Green tensor forced to zero sigma_scat_coupled equals
\* single_dip_sigma_scat of p0 plus single_dip_sigma_scat of p1, and at a
\* sample where p1 = 0 it equals single_dip_sigma_scat of p0.
C9_ScatUncoupledLimit ==
    op = "sigma_scat_coupled" =>
        LET single_0 == single_dip_sigma_scat(args.p_0, args.drive_hbar_w,
                                              args.n_b, args.E_0)
            single_1 == single_dip_sigma_scat(args.p_1, args.drive_hbar_w,
                                              args.n_b, args.E_0)
        IN  /\ ret.status = "ok"
            /\ \A n \in 1..Len(ret.sigma) :
                /\ args.G_forced_zero =>
                       ret.sigma[n] = CAdd(single_0[n], single_1[n])
                /\ args.p_1[n] = ZeroVec => ret.sigma[n] = single_0[n]

\* two driven dipoles in a medium with the Green tensor forced to zero, and
\* a coupled call whose second moment vanishes
C9_Witness ==
    /\ op = "sigma_scat_coupled"
    /\ args.n_b = 2
    /\ args.drive_hbar_w = 1
    /\ ret.sigma[1] # Zero
    /\ \/ args.G_forced_zero /\ args.p_1[1] # ZeroVec
       \/ ~args.G_forced_zero /\ args.p_1[1] = ZeroVec

DiagInvertible(alpha_diag) == \A i \in Idx : ~IsZero(alpha_diag[i][i])

\* the emitter tensor of an absorption call
AbsorbingTensor ==
    IF op = "single_dip_absorption" THEN args.alpha_0_p0 ELSE args.alpha0_diag

\* C26: single_dip_absorption and sigma_abs_coupled return a cross section
\* (no inversion failure) when the emitter tensor has a single nonzero
\* principal component (the fluorophore tensor, or a tensor restricted to
\* its long axis), at every molecule angle.
C26_AbsorptionSucceeds ==
    (/\ op \in {"single_dip_absorption", "sigma_abs_coupled"}
     /\ AbsorbingTensor \in FluorophoreTensors) =>
        ret.status = "ok"
\* the drive angle the coupled call uses
EffectiveDriveAngle ==
    IF args.E_d_angle = None THEN args.mol_angle ELSE args.E_d_angle

\* C10: with the Green tensor forced to zero and invertible alpha0, alpha1
\* the total of sigma_abs_coupled equals single_dip_absorption of dipole 0
\* plus single_dip_absorption of dipole 1 for the same drive angle, drive
\* amplitude and wavenumber.
C10_AbsUncoupledLimit ==
    (/\ op = "sigma_abs_coupled"
     /\ args.G_forced_zero
     /\ DiagInvertible(args.alpha0_diag)
     /\ DiagInvertible(args.alpha1_diag)) =>
        LET single_0 == single_dip_absorption(args.mol_angle,
                            EffectiveDriveAngle, args.alpha0_diag,
                            args.drive_hbar_w, args.drive_amp, args.n_b)
            single_1 == single_dip_absorption(args.plas_angle,
                            EffectiveDriveAngle, args.alpha1_diag,
                            args.drive_hbar_w, args.drive_amp, args.n_b)
        IN  /\ ret.status = "ok"
            /\ single_0.status = "ok"
            /\ single_1.status = "ok"
            /\ \A n \in 1..Len(ret.sigma) :
                   ret.sigma[n] = CAdd(single_0.sigma, single_1.sigma)

\* a rotated lossy emitter and a spheroid, uncoupled, at a non-zero
\* wavenumber
C10_Witness ==
    /\ op = "sigma_abs_coupled"
    /\ args.G_forced_zero
    /\ args.mol_angle = Angle(3, 4, 5)
    /\ args.alpha0_diag = Diag(Cx(1, 1), One, One)
    /\ args.drive_hbar_w = 1
    /\ ret.status = "ok"
    /\ ret.sigma[1] # Zero

====
